---- MODULE Spec2Model ----
(***************************************************************************)
(* Model of the Gemini chat-completion adapter of iris-api-server          *)
(* (src/autogen_workflow/gemini_client.py).                                *)
(*                                                                         *)
(* Python values are modelled as follows.  A str is a TLA+ string.  A      *)
(* message content is a tagged record [py, s]: py = "str" carries the text *)
(* in s, py = "None" is None and py = "list" is the empty list [].  A dict *)
(* is a record (a function on its keys), a list is a sequence, and None    *)
(* where a dict is expected is the record PyNone.                          *)
(***************************************************************************)
EXTENDS Integers, Sequences, FiniteSets, TLC

VARIABLES
    ctor_args,      \* arguments of the last GeminiChatCompletionClient(...) call
    client,         \* the GeminiChatCompletionClient object (or its failed construction)
    pc,             \* position of the one create() call in flight
    messages,       \* argument of create() / _convert_messages
    payload,        \* request payload built by _convert_messages
    http,           \* what the HTTP exchange did (status and body, or an exception)
    response_text,  \* value returned by _generate_response
    outcome,        \* caller-visible outcome of create()
    calls,          \* concurrent create() calls on one client: call id -> its frame
    sessions,       \* every aiohttp.ClientSession created so far, in creation order
    variant,        \* which client class the object is: "live" or "mock"
    counted,        \* what the last count_tokens / remaining_tokens call returned
    first_create,   \* the first create() call made on the mock client, and its text
    first_payload,  \* payload of the first of two _convert_messages calls
    stream,         \* the async generator returned by create_stream
    config,         \* the WorkflowConfig given to ProgrammingWorkflow
    workflow,       \* the ProgrammingWorkflow object (or its failed construction)
    clock,          \* what datetime.now() returns next
    run_result,     \* what the run_workflow call in progress or just ended returned
    project_status, \* ProjectManagerAgent.project_status
    review_result   \* what the last CodeReviewerAgent.review_code call returned

vars == <<ctor_args, client, pc, messages, payload, http, response_text, outcome,
          calls, sessions, variant, counted, first_create, first_payload,
          stream, config, workflow, clock, run_result, project_status,
          review_result>>

\* the state used only by the specification of concurrent calls
sessionVars == <<calls, sessions>>
\* the state used only by the specifications of the capability contract
contractVars == <<variant, counted, first_create>>
\* the state used only by the specifications of the repeated translation, of
\* streaming, of the workflow and of the agents
workflowVars == <<config, workflow, clock, run_result>>
agentVars == <<project_status, review_result>>
outerVars == <<first_payload, stream, workflowVars, agentVars>>

----------------------------------------------------------------------------
(* Bounds of the model *)

\* longest message list given to the translator on its own
MaxMsgs == 3
\* longest message list given to a full create() call
MaxCallMsgs == 2

----------------------------------------------------------------------------
(* Python built-ins used by the client *)

PyNone == [py |-> "None"]

StrV(t) == [py |-> "str", s |-> t]
NoneV == [py |-> "None", s |-> ""]
EmptyListV == [py |-> "list", s |-> ""]

\* str(x)
PyStr(v) ==
    CASE v.py = "str" -> v.s
      [] v.py = "None" -> "None"
      [] v.py = "list" -> "[]"

\* bool(x) for a content value: None, "" and [] are falsy
Truthy(v) == v.py = "str" /\ v.s # ""

\* bool(x) for None-or-dict: None and {} are falsy
DictTruthy(d) == d # PyNone /\ DOMAIN d # {}

CharAt(s, i) == SubSeq(s, i, i)

\* the characters str.lower() changes (ASCII)
LowerOf ==
    [A |-> "a", B |-> "b", C |-> "c", D |-> "d", E |-> "e", F |-> "f", G |-> "g",
     H |-> "h", I |-> "i", J |-> "j", K |-> "k", L |-> "l", M |-> "m", N |-> "n",
     O |-> "o", P |-> "p", Q |-> "q", R |-> "r", S |-> "s", T |-> "t", U |-> "u",
     V |-> "v", W |-> "w", X |-> "x", Y |-> "y", Z |-> "z"]

LowerChar(c) == IF c \in DOMAIN LowerOf THEN LowerOf[c] ELSE c

RECURSIVE LowerFrom(_, _)
LowerFrom(s, i) ==
    IF i > Len(s) THEN "" ELSE LowerChar(CharAt(s, i)) \o LowerFrom(s, i + 1)

\* s.lower()
Lower(s) == LowerFrom(s, 1)

\* sub in s
Contains(sub, s) ==
    \E i \in 1..(Len(s) - Len(sub) + 1) : SubSeq(s, i, i + Len(sub) - 1) = sub

Whitespace == {" ", "\t", "\n"}

\* len(s.split()): the number of maximal runs of non-whitespace characters
WordCount(s) ==
    Cardinality({i \in 1..Len(s) :
        /\ CharAt(s, i) \notin Whitespace
        /\ (i = 1 \/ CharAt(s, i - 1) \in Whitespace)})

Digits == "0123456789"

RECURSIVE IntToStr(_)
\* str(n) for n >= 0
IntToStr(n) ==
    IF n < 10 THEN CharAt(Digits, n + 1)
    ELSE IntToStr(n \div 10) \o CharAt(Digits, (n % 10) + 1)

\* max(a, b)
Max(a, b) == IF a >= b THEN a ELSE b

----------------------------------------------------------------------------
(* Inputs *)

Roles == {"System", "User", "Assistant", "FunctionResult"}

Texts == {"", "Hello"}

Contents == {StrV(t) : t \in Texts} \cup {EmptyListV}

Messages == [role : Roles, content : Contents]

RECURSIVE SeqsUpTo(_, _)
SeqsUpTo(S, n) ==
    IF n = 0 THEN {<<>>}
    ELSE LET shorter == SeqsUpTo(S, n - 1)
         IN  shorter \cup {Append(q, x) : q \in {r \in shorter : Len(r) = n - 1}, x \in S}

MsgLists == SeqsUpTo(Messages, MaxMsgs)

CallContents == {StrV("Hello"), NoneV}
CallMessages == [role : Roles, content : CallContents]
CallMsgLists == SeqsUpTo(CallMessages, MaxCallMsgs)

Models == {"gemini-2.0-flash", "gemini-2.5-pro-preview-05-06", "Gemini-Preview"}
ApiKeys == {NoneV, StrV(""), StrV("AIza-key")}
Temperatures == {"0.7", "0.2"}
TokenBudgets == {100, 4000}

----------------------------------------------------------------------------
(* GeminiChatCompletionClient.__init__ *)

NoClient == [state |-> "none"]
NoArgs == [model |-> "", api_key |-> NoneV, temperature |-> "", max_tokens |-> 0]

\* the fields assigned at lines 51-54
Fields(model, api_key, temperature, max_tokens) ==
    [model |-> model, api_key |-> api_key,
     temperature |-> temperature, max_tokens |-> max_tokens]

\* faulty variant: only None is rejected ("if api_key is None")
KeyMissingNoneOnly(api_key) == api_key.py = "None"

\* the check at lines 61-62
KeyMissing(api_key) == ~Truthy(api_key)

ClientInit(model, api_key, temperature, max_tokens) ==
    IF KeyMissing(api_key)
    THEN [state |-> "raised", error |-> "ValueError",
          self |-> Fields(model, api_key, temperature, max_tokens)]
    ELSE [state |-> "ok",
          self |-> Fields(model, api_key, temperature, max_tokens)]

----------------------------------------------------------------------------
(* GeminiChatCompletionClient._convert_messages *)

TextEntry(t) == [parts |-> <<[text |-> t]>>]

FunctionResultPrefix == "Function result: "
PlaceholderText == "Hello"
DefaultSystemText == "You are a helpful AI assistant. Provide clear, direct responses."

\* faulty variant: every System message overwrites the instruction (the guard of line 105 lost)
SystemBranchLastWins(system_instruction, message) ==
    TextEntry(PyStr(message.content))

\* lines 104-108: the System branch of the loop
SystemBranch(system_instruction, message) ==
    IF ~DictTruthy(system_instruction)
    THEN TextEntry(PyStr(message.content))
    ELSE system_instruction

\* faulty variant: a User message with falsy content is skipped
UserBranchSkipsFalsy(gemini_contents, message) ==
    IF Truthy(message.content)
    THEN Append(gemini_contents, TextEntry(PyStr(message.content)))
    ELSE gemini_contents

\* lines 109-112: the User branch of the loop
UserBranch(gemini_contents, message) ==
    Append(gemini_contents, TextEntry(PyStr(message.content)))

\* faulty variant: Assistant messages are sent as conversation history
AssistantBranchAppends(gemini_contents, message) ==
    Append(gemini_contents, TextEntry(PyStr(message.content)))

\* lines 113-116: the Assistant branch of the loop
AssistantBranch(gemini_contents, message) == gemini_contents

\* faulty variant: the "Function result: " marker is left out
FunctionResultBranchNoMarker(gemini_contents, message) ==
    Append(gemini_contents, TextEntry(PyStr(message.content)))

\* lines 117-120: the FunctionExecutionResultMessage branch of the loop
FunctionResultBranch(gemini_contents, message) ==
    Append(gemini_contents, TextEntry(FunctionResultPrefix \o PyStr(message.content)))

\* lines 103-120: one iteration of the loop over messages
LoopStep(acc, message) ==
    CASE message.role = "System" ->
            [acc EXCEPT !.system_instruction = SystemBranch(@, message)]
      [] message.role = "User" ->
            [acc EXCEPT !.gemini_contents = UserBranch(@, message)]
      [] message.role = "Assistant" ->
            [acc EXCEPT !.gemini_contents = AssistantBranch(@, message)]
      [] message.role = "FunctionResult" ->
            [acc EXCEPT !.gemini_contents = FunctionResultBranch(@, message)]

RECURSIVE LoopFrom(_, _, _)
LoopFrom(acc, msgs, i) ==
    IF i > Len(msgs) THEN acc ELSE LoopFrom(LoopStep(acc, msgs[i]), msgs, i + 1)

\* lines 99-120
\* faulty variant: gemini_contents is kept on the client between calls
ConvertLoopKeepsContents(msgs) ==
    LoopFrom([system_instruction |-> PyNone,
              gemini_contents |-> IF payload = PyNone THEN <<>> ELSE payload.contents],
             msgs, 1)

\* lines 99-120
ConvertLoop(msgs) ==
    LoopFrom([system_instruction |-> PyNone, gemini_contents |-> <<>>], msgs, 1)

\* faulty variant: no default entry is created
WithPlaceholderMissing(gemini_contents) == gemini_contents

\* lines 122-126: "if no user messages, create a default one"
WithPlaceholder(gemini_contents) ==
    IF gemini_contents = <<>>
    THEN Append(gemini_contents, TextEntry(PlaceholderText))
    ELSE gemini_contents

\* faulty variant: the model name is not lower-cased before the test
IsPreviewModelCaseSensitive(model) == Contains("preview", model)

\* line 140
IsPreviewModel(model) == Contains("preview", Lower(model))

\* lines 137-144
WithSystemInstruction(base, system_instruction, model) ==
    IF DictTruthy(system_instruction)
    THEN base @@ ("systemInstruction" :> system_instruction)
    ELSE IF IsPreviewModel(model)
         THEN base @@ ("systemInstruction" :> TextEntry(DefaultSystemText))
         ELSE base

\* lines 96-146, with self = the client's fields
ConvertMessages(self, msgs) ==
    LET acc == ConvertLoop(msgs)
        base == [contents |-> WithPlaceholder(acc.gemini_contents),
                 generationConfig |-> [temperature |-> self.temperature,
                                       maxOutputTokens |-> self.max_tokens]]
    IN  WithSystemInstruction(base, acc.system_instruction, self.model)

----------------------------------------------------------------------------
(* GeminiChatCompletionClient._generate_response *)

NoHttp == [kind |-> "none"]

\* session.post(...) delivered a response with this status and body
Response(status, body) == [kind |-> "response", status |-> status, body |-> body]

\* session.post(...) or the body read raised (connection error, timeout)
Failure(message) == [kind |-> "exception", message |-> message]

JsonBody(result) == [parses |-> TRUE, json |-> result]
InvalidJsonBody(message) == [parses |-> FALSE, error |-> message]
TextBody(t) == [text |-> t]

Candidates(t) == [candidates |-> <<[content |-> [parts |-> <<[text |-> t]>>]]>>]

GeneratedTexts == {"Hello from Gemini!", ""}

\* a 200 body with two candidates, the first of two parts
TwoCandidates ==
    [candidates |-> <<[content |-> [parts |-> <<[text |-> "first"], [text |-> "second"]>>]],
                      [content |-> [parts |-> <<[text |-> "other"]>>]]>>]

\* 200 bodies in which candidates[0].content.parts[0].text is present
WellFormedResults == {Candidates(t) : t \in GeneratedTexts} \cup {TwoCandidates}

\* 200 bodies in which it is structurally absent
MalformedResults ==
    { [promptFeedback |-> "BLOCKED"],
      [candidates |-> <<>>],
      [candidates |-> <<[finishReason |-> "SAFETY"]>>],
      [candidates |-> <<[content |-> [role |-> "model"]]>>],
      [candidates |-> <<[content |-> [parts |-> <<>>]]>>],
      [candidates |-> <<[content |-> [parts |-> <<[inlineData |-> "AAAA"]>>]]>>] }

ErrorStatuses == {429, 500, 404}
ErrorBodies == {"rate limited", ""}
ExceptionMessages == {"Cannot connect to host", ""}

ApologyText == "I apologize, but I couldn't generate a response."

\* faulty variant: an empty text counts as absent (a truth test instead of "in")
ExtractTextIfTruthy(result) ==
    IF "candidates" \in DOMAIN result /\ Len(result.candidates) > 0
    THEN LET candidate == result.candidates[1]
         IN  IF "content" \in DOMAIN candidate /\ "parts" \in DOMAIN candidate.content
             THEN LET parts == candidate.content.parts
                  IN  IF Len(parts) > 0 /\ "text" \in DOMAIN parts[1] /\ parts[1].text # ""
                      THEN parts[1].text
                      ELSE ApologyText
             ELSE ApologyText
    ELSE ApologyText

\* lines 180-187
ExtractText(result) ==
    IF "candidates" \in DOMAIN result /\ Len(result.candidates) > 0
    THEN LET candidate == result.candidates[1]
         IN  IF "content" \in DOMAIN candidate /\ "parts" \in DOMAIN candidate.content
             THEN LET parts == candidate.content.parts
                  IN  IF Len(parts) > 0 /\ "text" \in DOMAIN parts[1]
                      THEN parts[1].text
                      ELSE ApologyText
             ELSE ApologyText
    ELSE ApologyText

\* lines 189-192
RejectedText(status, error_text) ==
    "API Error " \o IntToStr(status) \o ": " \o error_text

\* lines 194-196
CaughtText(message) == "Error: " \o message

\* lines 148-196: the string _generate_response returns for an exchange h
GenerateResponse(h) ==
    CASE h.kind = "exception" -> CaughtText(h.message)
      [] h.kind = "response" /\ h.status = 200 ->
            IF h.body.parses THEN ExtractText(h.body.json)
            ELSE CaughtText(h.body.error)
      [] h.kind = "response" /\ h.status # 200 ->
            RejectedText(h.status, h.body.text)

----------------------------------------------------------------------------
(* GeminiChatCompletionClient._create_result and create *)

RECURSIVE PromptTokensFrom(_, _)
\* line 206: sum(len(str(msg.content).split()) for msg in original_messages ...)
PromptTokensFrom(msgs, i) ==
    IF i > Len(msgs) THEN 0
    ELSE WordCount(PyStr(msgs[i].content)) + PromptTokensFrom(msgs, i + 1)

\* lines 198-218
CreateResult(text, original_messages) ==
    [content |-> text,
     finish_reason |-> "stop",
     usage |-> [prompt_tokens |-> PromptTokensFrom(original_messages, 1),
                completion_tokens |-> WordCount(text)],
     cached |-> FALSE]

NoOutcome == [kind |-> "none"]

\* line 90: create() hands the CreateResult to its caller
Returned(result) == [kind |-> "returned", result |-> result]

\* lines 87-90: what create() does with the string _generate_response gave it
CreateOutcome(text, original_messages) ==
    Returned(CreateResult(text, original_messages))

----------------------------------------------------------------------------
(* The live client: construction, then create() calls one after another *)

NoCount == [op |-> "none"]
NoFirstCreate == [made |-> FALSE]

\* no concurrent call has been started
SessionsIdle == calls = <<>> /\ sessions = <<>>

NoStream == [status |-> "none"]
NoConfig == [py |-> "None"]
NoWorkflow == [state |-> "none"]
NoRunResult == [status |-> "none"]
NoProjectStatus == [tasks_completed |-> <<>>, tasks_in_progress |-> <<>>,
                    tasks_pending |-> <<>>]
NoReviewResult == [status |-> "none"]

\* nothing translated twice or streamed, no workflow, no agent
OuterIdle ==
    /\ first_payload = PyNone
    /\ stream = NoStream
    /\ config = NoConfig
    /\ workflow = NoWorkflow
    /\ clock = 0
    /\ run_result = NoRunResult
    /\ project_status = NoProjectStatus
    /\ review_result = NoReviewResult

\* a live client on which no token count was asked
ContractIdle == variant = "live" /\ counted = NoCount /\ first_create = NoFirstCreate

Init ==
    /\ SessionsIdle
    /\ OuterIdle
    /\ ContractIdle
    /\ ctor_args = NoArgs
    /\ client = NoClient
    /\ pc = "idle"
    /\ messages = <<>>
    /\ payload = PyNone
    /\ http = NoHttp
    /\ response_text = ""
    /\ outcome = NoOutcome

\* GeminiChatCompletionClient(model, api_key, temperature, max_tokens)
Construct ==
    /\ client.state # "ok"
    /\ \E model \in Models, api_key \in ApiKeys,
          temperature \in Temperatures, max_tokens \in TokenBudgets :
        /\ ctor_args' = [model |-> model, api_key |-> api_key,
                         temperature |-> temperature, max_tokens |-> max_tokens]
        /\ client' = ClientInit(model, api_key, temperature, max_tokens)
    /\ UNCHANGED <<pc, messages, payload, http, response_text, outcome>>
    /\ UNCHANGED <<sessionVars, contractVars, outerVars>>

\* create(messages) up to the await of _generate_response (lines 82-87)
CreateCall ==
    /\ client.state = "ok"
    /\ pc = "idle"
    /\ \E msgs \in CallMsgLists :
        /\ messages' = msgs
        /\ payload' = ConvertMessages(client.self, msgs)
    /\ pc' = "request"
    /\ http' = NoHttp
    /\ response_text' = ""
    /\ outcome' = NoOutcome
    /\ UNCHANGED <<ctor_args, client>>
    /\ UNCHANGED <<sessionVars, contractVars, outerVars>>

\* the exchange ends: _generate_response returns (lines 168-196)
Exchange(h) ==
    /\ pc = "request"
    /\ http' = h
    /\ response_text' = GenerateResponse(h)
    /\ pc' = "responded"
    /\ UNCHANGED <<ctor_args, client, messages, payload, outcome>>
    /\ UNCHANGED <<sessionVars, contractVars, outerVars>>

\* HTTP 200 with a JSON body
HttpOk ==
    \E result \in WellFormedResults \cup MalformedResults :
        Exchange(Response(200, JsonBody(result)))

\* HTTP 200 whose body response.json() cannot parse
HttpUnparsable ==
    Exchange(Response(200, InvalidJsonBody("Attempt to decode JSON with unexpected mimetype")))

\* any other status
HttpRejected ==
    \E status \in ErrorStatuses, error_text \in ErrorBodies :
        Exchange(Response(status, TextBody(error_text)))

\* connection failure or the 30 second timeout
HttpFails ==
    \E message \in ExceptionMessages : Exchange(Failure(message))

\* create() returns (lines 89-90)
CreateReturn ==
    /\ pc = "responded"
    /\ outcome' = CreateOutcome(response_text, messages)
    /\ pc' = "done"
    /\ UNCHANGED <<ctor_args, client, messages, payload, http, response_text>>
    /\ UNCHANGED <<sessionVars, contractVars, outerVars>>

Next ==
    \/ Construct
    \/ CreateCall
    \/ HttpOk
    \/ HttpUnparsable
    \/ HttpRejected
    \/ HttpFails
    \/ CreateReturn

Spec == Init /\ [][Next]_vars

----------------------------------------------------------------------------
(* The message translator on its own: _convert_messages applied to every   *)
(* message list of up to MaxMsgs messages, for every model identifier      *)

TranslateInit ==
    /\ \E model \in Models, temperature \in Temperatures, max_tokens \in TokenBudgets :
        /\ ctor_args = [model |-> model, api_key |-> StrV("AIza-key"),
                        temperature |-> temperature, max_tokens |-> max_tokens]
        /\ client = ClientInit(model, StrV("AIza-key"), temperature, max_tokens)
    /\ SessionsIdle
    /\ OuterIdle
    /\ ContractIdle
    /\ pc = "input"
    /\ messages \in MsgLists
    /\ payload = PyNone
    /\ http = NoHttp
    /\ response_text = ""
    /\ outcome = NoOutcome

\* payload = self._convert_messages(messages)   (line 84)
Translate ==
    /\ pc = "input"
    /\ payload' = ConvertMessages(client.self, messages)
    /\ pc' = "translated"
    /\ UNCHANGED <<ctor_args, client, messages, http, response_text, outcome>>
    /\ UNCHANGED <<sessionVars, contractVars, outerVars>>

TranslateNext == Translate

SpecTranslate == TranslateInit /\ [][TranslateNext]_vars

----------------------------------------------------------------------------
(* Claims C1-C3: error outcomes of the live create() *)

\* the error outcome a caller would see if create() failed with TransportError e
TransportError(e) == [kind |-> "raised", error |-> e]

\* C1: a create() whose HTTP exchange returned a non-200 status ends in a
\* BackendRejected error carrying the status code and the raw body text, never
\* in a normally returned result.
C1_Non200IsBackendRejected ==
    (pc = "done" /\ http.kind = "response" /\ http.status # 200)
        => outcome = TransportError([type |-> "BackendRejected",
                                     status |-> http.status,
                                     body |-> http.body.text])

\* C2: a create() whose HTTP call failed at the network layer or timed out
\* fails with an Unreachable error; it never returns a result.
C2_NetworkFailurePropagates ==
    (pc = "done" /\ http.kind = "exception")
        => outcome = TransportError([type |-> "Unreachable"])

\* C3: a create() whose 200 response lacks candidates[0].content.parts[0].text
\* ends in a MalformedResponse error, never in a normally returned result.
C3_MalformedIsError ==
    (pc = "done" /\ http.kind = "response" /\ http.status = 200
        /\ http.body.parses /\ http.body.json \in MalformedResults)
        => outcome = TransportError([type |-> "MalformedResponse"])

----------------------------------------------------------------------------
(* Claim C4: construction *)

\* C4: construction with a None or empty API key fails, so that no create()
\* call is ever made on such a client; with a non-empty key it succeeds and the
\* client holds the model, key, temperature and max-token budget it was given.
C4_KeyRequiredAtConstruction ==
    /\ client.state \in {"ok", "raised"} =>
        /\ client.state = "raised" <=> ctor_args.api_key \in {NoneV, StrV("")}
        /\ client.state = "ok" => client.self = ctor_args
    /\ pc # "idle" => client.state = "ok" /\ client.self.api_key \notin {NoneV, StrV("")}

C4_Witness ==
    /\ client.state = "raised"
    /\ client.error = "ValueError"
    /\ ctor_args.api_key = StrV("")
    /\ pc = "idle"

----------------------------------------------------------------------------
(* Claims C5-C10: the message translator *)

IsRole(m, roles) == m.role \in roles
OfRoles(msgs, roles) == SelectSeq(msgs, LAMBDA m : IsRole(m, roles))
NumOfRoles(msgs, roles) == Len(OfRoles(msgs, roles))

\* the text a message carries
TextOf(m) == PyStr(m.content)

\* the entry a User or FunctionResult message stands for
EntryOf(m) ==
    IF m.role = "User" THEN [parts |-> <<[text |-> TextOf(m)]>>]
    ELSE [parts |-> <<[text |-> "Function result: " \o TextOf(m)]>>]

\* the User and FunctionResult messages, in input order, each as its entry
MappedEntries(msgs) ==
    LET kept == OfRoles(msgs, {"User", "FunctionResult"})
    IN  [i \in 1..Len(kept) |-> EntryOf(kept[i])]

PlaceholderEntry == [parts |-> <<[text |-> "Hello"]>>]

\* C5: with two or more System messages, systemInstruction is the text of the
\* first one in list order; the later ones appear neither there nor in contents.
C5_FirstSystemMessageWins ==
    (pc = "translated" /\ NumOfRoles(messages, {"System"}) >= 2) =>
        /\ "systemInstruction" \in DOMAIN payload
        /\ payload.systemInstruction =
               [parts |-> <<[text |-> TextOf(OfRoles(messages, {"System"})[1])]>>]
        /\ Len(payload.contents) =
               Max(1, NumOfRoles(messages, {"User", "FunctionResult"}))
        /\ NumOfRoles(messages, {"User", "FunctionResult"}) > 0 =>
               payload.contents = MappedEntries(messages)

C5_Witness ==
    /\ pc = "translated"
    /\ Len(messages) = 3
    /\ messages[1].role = "System" /\ messages[2].role = "User"
    /\ messages[3].role = "System"
    /\ TextOf(messages[1]) # TextOf(messages[3])
    /\ payload.systemInstruction.parts[1].text = TextOf(messages[1])

\* C6: for a list of exactly one System message followed by one User message,
\* systemInstruction is the System text and contents is exactly one entry whose
\* single text part is the User text.
C6_SystemThenUser ==
    (pc = "translated" /\ Len(messages) = 2
        /\ messages[1].role = "System" /\ messages[2].role = "User") =>
        /\ "systemInstruction" \in DOMAIN payload
        /\ payload.systemInstruction.parts = <<[text |-> TextOf(messages[1])]>>
        /\ Len(payload.contents) = 1
        /\ payload.contents[1].parts = <<[text |-> TextOf(messages[2])]>>

C6_Witness ==
    /\ pc = "translated"
    /\ messages = <<[role |-> "System", content |-> StrV("Hello")],
                    [role |-> "User", content |-> StrV("")]>>
    /\ payload.contents = <<[parts |-> <<[text |-> ""]>>]>>

\* C7: contents is never empty; the placeholder entry is the whole of contents
\* exactly when the list has no User and no FunctionResult message, and
\* otherwise contents has one entry per User or FunctionResult message and
\* nothing more.
C7_ContentsNeverEmpty ==
    pc = "translated" =>
        /\ Len(payload.contents) >= 1
        /\ NumOfRoles(messages, {"User", "FunctionResult"}) = 0 =>
               payload.contents = <<PlaceholderEntry>>
        /\ NumOfRoles(messages, {"User", "FunctionResult"}) > 0 =>
               Len(payload.contents) = NumOfRoles(messages, {"User", "FunctionResult"})

C7_Witness ==
    /\ pc = "translated"
    /\ Len(messages) = 2
    /\ \A i \in 1..2 : messages[i].role \in {"System", "Assistant"}
    /\ payload.contents = <<PlaceholderEntry>>

\* C8: Assistant messages never reach the backend: the request built from a
\* list is the request built from the same list with its Assistant messages
\* removed, so two lists that differ only in Assistant messages translate alike.
C8_AssistantMessagesExcluded ==
    pc = "translated" =>
        payload = ConvertMessages(client.self,
                      OfRoles(messages, {"System", "User", "FunctionResult"}))

C8_Witness ==
    /\ pc = "translated"
    /\ Len(messages) = 3
    /\ messages[1].role = "User" /\ messages[2].role = "Assistant"
    /\ messages[3].role = "User"
    /\ TextOf(messages[2]) = "Hello"
    /\ Len(payload.contents) = 2

\* C9: with at least one User or FunctionResult message, contents is the
\* in-order sequence of one entry per User message (its text) and one per
\* FunctionResult message ("Function result: " followed by its payload).
C9_ContentsInInputOrder ==
    (pc = "translated" /\ NumOfRoles(messages, {"User", "FunctionResult"}) > 0) =>
        payload.contents = MappedEntries(messages)

C9_Witness ==
    /\ pc = "translated"
    /\ Len(messages) = 3
    /\ messages[1].role = "FunctionResult" /\ messages[2].role = "System"
    /\ messages[3].role = "User"
    /\ payload.contents[1].parts[1].text = "Function result: Hello"
    /\ payload.contents[2].parts[1].text = ""

\* the configured identifiers that follow the preview naming pattern
PreviewModels == {"gemini-2.5-pro-preview-05-06", "Gemini-Preview"}

DefaultInstruction ==
    [parts |-> <<[text |->
        "You are a helpful AI assistant. Provide clear, direct responses."]>>]

\* C10: the request carries a systemInstruction iff the input has a System
\* message or the model is a preview model; it is the default instruction when
\* the model is a preview model and no System message was given, and the first
\* System message whenever one was given.
C10_SystemInstructionPresence ==
    pc = "translated" =>
        LET hasSystem == NumOfRoles(messages, {"System"}) > 0
            preview == client.self.model \in PreviewModels
        IN  /\ "systemInstruction" \in DOMAIN payload <=> (hasSystem \/ preview)
            /\ (preview /\ ~hasSystem) => payload.systemInstruction = DefaultInstruction
            /\ hasSystem => payload.systemInstruction =
                   [parts |-> <<[text |-> TextOf(OfRoles(messages, {"System"})[1])]>>]

C10_Witness ==
    /\ pc = "translated"
    /\ client.self.model = "Gemini-Preview"
    /\ NumOfRoles(messages, {"System"}) = 0
    /\ Len(messages) > 0
    /\ payload.systemInstruction = DefaultInstruction

----------------------------------------------------------------------------
(* Concurrent create() calls on one live client.  A call runs without      *)
(* interruption between two awaits; the awaits of _generate_response are   *)
(* session.post (line 169), response.json / response.text (lines 177, 190) *)
(* and the exit of the two "async with" blocks (lines 168-174).            *)

\* number of create() calls issued concurrently
NumCalls == 2

CallIds == 1..NumCalls

SessionMsgLists == {<<>>, <<[role |-> "User", content |-> StrV("Hello")]>>}

\* a frame of create() before the call is made
IdleCall ==
    [pc |-> "idle", messages |-> <<>>, payload |-> PyNone, session |-> 0,
     posts |-> 0, http |-> NoHttp, text |-> "", outcome |-> NoOutcome]

\* line 168: aiohttp.ClientSession(timeout=timeout), a new object owned by the call
OpenSession(all, c) == Append(all, [owner |-> c, open |-> TRUE])

\* lines 84, 154-174: translate, open the call's session and issue the POST
StartedCall(self, msgs, session) ==
    [pc |-> "awaiting_response", messages |-> msgs,
     payload |-> ConvertMessages(self, msgs), session |-> session,
     posts |-> 1, http |-> NoHttp, text |-> "", outcome |-> NoOutcome]

\* faulty variant: a failed POST is issued again
AfterPostFailureRetries(call, message) ==
    [call EXCEPT !.posts = @ + 1]

\* lines 169, 194-196: session.post raised; the exception leaves both blocks
AfterPostFailure(call, message) ==
    [call EXCEPT !.pc = "closing", !.http = Failure(message),
                 !.text = CaughtText(message)]

\* lines 169-176: the response status line and headers arrived
AfterResponse(call, h) == [call EXCEPT !.pc = "reading_body", !.http = h]

\* lines 176-196: the body is read and the text to return is decided
AfterBody(call) == [call EXCEPT !.pc = "closing", !.text = GenerateResponse(call.http)]

\* faulty variant: the session is closed only on the paths that raised nothing
CloseSessionUnlessFailed(all, call) ==
    IF call.http.kind = "exception" THEN all
    ELSE [all EXCEPT ![call.session].open = FALSE]

\* line 168: leaving "async with aiohttp.ClientSession(...)" closes the session
CloseSession(all, call) == [all EXCEPT ![call.session].open = FALSE]

\* lines 87-90: _generate_response returned, create() returns its result
FinishedCall(call) ==
    [call EXCEPT !.pc = "done", !.outcome = CreateOutcome(call.text, call.messages)]

SessionsInit ==
    /\ ctor_args = [model |-> "gemini-2.0-flash", api_key |-> StrV("AIza-key"),
                    temperature |-> "0.7", max_tokens |-> 4000]
    /\ client = ClientInit("gemini-2.0-flash", StrV("AIza-key"), "0.7", 4000)
    /\ pc = "idle"
    /\ messages = <<>>
    /\ payload = PyNone
    /\ http = NoHttp
    /\ response_text = ""
    /\ outcome = NoOutcome
    /\ calls = [c \in CallIds |-> IdleCall]
    /\ sessions = <<>>
    /\ ContractIdle
    /\ OuterIdle

\* the state of the one-call specification, which concurrent calls leave alone
singleCallVars ==
    <<ctor_args, client, pc, messages, payload, http, response_text, outcome>>

\* create(messages) up to its first await
StartCall(c) ==
    /\ calls[c].pc = "idle"
    /\ \E msgs \in SessionMsgLists :
        calls' = [calls EXCEPT ![c] = StartedCall(client.self, msgs, Len(sessions) + 1)]
    /\ sessions' = OpenSession(sessions, c)
    /\ UNCHANGED <<singleCallVars, contractVars, outerVars>>

\* the POST fails: connection error or the 30 second timeout
PostFails(c) ==
    /\ calls[c].pc = "awaiting_response"
    /\ \E message \in ExceptionMessages :
        calls' = [calls EXCEPT ![c] = AfterPostFailure(@, message)]
    /\ UNCHANGED <<sessions, singleCallVars, contractVars, outerVars>>

\* the POST is answered
PostAnswered(c) ==
    /\ calls[c].pc = "awaiting_response"
    /\ \E h \in {Response(200, JsonBody(Candidates("Hello from Gemini!"))),
                 Response(200, JsonBody([candidates |-> <<>>])),
                 Response(200, InvalidJsonBody("Expecting value")),
                 Response(429, TextBody("rate limited"))} :
        calls' = [calls EXCEPT ![c] = AfterResponse(@, h)]
    /\ UNCHANGED <<sessions, singleCallVars, contractVars, outerVars>>

\* await response.json() / await response.text()
ReadBody(c) ==
    /\ calls[c].pc = "reading_body"
    /\ calls' = [calls EXCEPT ![c] = AfterBody(@)]
    /\ UNCHANGED <<sessions, singleCallVars, contractVars, outerVars>>

\* the "async with" blocks are left and create() returns
CloseAndReturn(c) ==
    /\ calls[c].pc = "closing"
    /\ sessions' = CloseSession(sessions, calls[c])
    /\ calls' = [calls EXCEPT ![c] = FinishedCall(@)]
    /\ UNCHANGED <<singleCallVars, contractVars, outerVars>>

SessionsNext ==
    \E c \in CallIds :
        \/ StartCall(c)
        \/ PostFails(c)
        \/ PostAnswered(c)
        \/ ReadBody(c)
        \/ CloseAndReturn(c)

SpecSessions == SessionsInit /\ [][SessionsNext]_vars

----------------------------------------------------------------------------
(* Claims C11-C12: one POST and one session per call *)

Started(c) == calls[c].pc # "idle"

\* C11: a create() call performs exactly one HTTP POST attempt; no second
\* request follows a non-200 status, a malformed body or a network failure.
C11_ExactlyOnePost ==
    \A c \in DOMAIN calls :
        /\ calls[c].posts <= 1
        /\ Started(c) => calls[c].posts = 1

C11_Witness ==
    /\ \A c \in DOMAIN calls : calls[c].pc = "done"
    /\ \E c \in DOMAIN calls : calls[c].http.kind = "exception"
    /\ \E c \in DOMAIN calls :
        calls[c].http.kind = "response" /\ calls[c].http.status = 429
    /\ \A c \in DOMAIN calls : calls[c].posts = 1

\* C12: every call opens a session of its own, which is released on every
\* exit path; no session is used by two calls, and once all calls have
\* finished no session is open.
C12_OwnSessionAlwaysReleased ==
    /\ \A c \in DOMAIN calls :
        /\ Started(c) =>
            /\ calls[c].session \in DOMAIN sessions
            /\ sessions[calls[c].session].owner = c
            /\ Cardinality({i \in DOMAIN sessions : sessions[i].owner = c}) = 1
        /\ ~Started(c) => \A i \in DOMAIN sessions : sessions[i].owner # c
        /\ (Started(c) /\ calls[c].pc # "done") => sessions[calls[c].session].open
        /\ calls[c].pc = "done" => ~sessions[calls[c].session].open
    /\ \A c, d \in DOMAIN calls :
        (c # d /\ Started(c) /\ Started(d)) => calls[c].session # calls[d].session
    /\ (\A c \in DOMAIN calls : calls[c].pc = "done") =>
        \A i \in DOMAIN sessions : ~sessions[i].open

C12_Witness ==
    /\ Len(sessions) >= 2
    /\ \A c \in DOMAIN calls : calls[c].pc = "done"
    /\ \E c \in DOMAIN calls : calls[c].http.kind = "exception"
    /\ \E c \in DOMAIN calls :
        calls[c].http.kind = "response" /\ calls[c].http.status = 200
    /\ \A i \in DOMAIN sessions : ~sessions[i].open

----------------------------------------------------------------------------
(* Claim C13: the successful round trip *)

\* the exchange was a 200 whose first candidate's first part has a text
TextPresent(h) ==
    /\ h.kind = "response" /\ h.status = 200 /\ h.body.parses
    /\ "candidates" \in DOMAIN h.body.json
    /\ h.body.json.candidates # <<>>
    /\ "content" \in DOMAIN h.body.json.candidates[1]
    /\ "parts" \in DOMAIN h.body.json.candidates[1].content
    /\ h.body.json.candidates[1].content.parts # <<>>
    /\ "text" \in DOMAIN h.body.json.candidates[1].content.parts[1]

\* C13: on a 200 whose first candidate's first part has a text field, create()
\* returns a result whose text is that field unchanged and whose finish reason
\* is "stop".
C13_SuccessRoundTrip ==
    (pc = "done" /\ TextPresent(http)) =>
        /\ outcome.kind = "returned"
        /\ outcome.result.content = http.body.json.candidates[1].content.parts[1].text
        /\ outcome.result.finish_reason = "stop"

C13_Witness ==
    /\ pc = "done"
    /\ http = Response(200, JsonBody(TwoCandidates))
    /\ outcome.result.content = "first"
    /\ outcome.result.finish_reason = "stop"

----------------------------------------------------------------------------
(* MockGeminiChatCompletionClient (src/autogen_workflow/mock_gemini_client.py) *)

\* __init__ (lines 48-51): the four fields are stored, the key is not checked
MockClientInit(model, api_key, temperature, max_tokens) ==
    [state |-> "ok", self |-> Fields(model, api_key, temperature, max_tokens)]

\* the five canned responses, each written here by its heading line only
ArchitectureTemplate == "# System Architecture Design"
PlanTemplate == "# Implementation Plan"
CodeTemplate == "# FastAPI Implementation"
ReviewTemplate == "# Code Review Report"
OptimizationTemplate == "# Code Optimization Report"

\* the default response around the echoed message (lines 316-327)
FallbackHead ==
    "Thank you for your message. As a Gemini AI assistant, I'm here to help with your programming workflow.\n\nYour message: \""
FallbackTail ==
    "\"\n\nI can assist with:\n- System architecture design\n- Project planning and management  \n- Code implementation\n- Code review and quality assessment\n- Performance optimization\n\nPlease let me know how I can help with your specific task!"

\* line 318: the echo keeps the first 100 characters
EchoLimit == 100

\* line 318: message[:100] followed by '...' when the message is longer
Echoed(message) ==
    IF Len(message) > EchoLimit
    THEN SubSeq(message, 1, EchoLimit) \o "..."
    ELSE message

\* faulty variant: the optimization branch is tested before the review branch
GenerateMockResponseOptimFirst(message) ==
    LET message_lower == Lower(message)
        has(k) == Contains(k, message_lower)
    IN  IF has("architect") \/ has("design") \/ has("architecture")
        THEN ArchitectureTemplate
        ELSE IF has("project") \/ has("plan") \/ has("manager")
        THEN PlanTemplate
        ELSE IF has("code") \/ has("implement") \/ has("programmer")
        THEN CodeTemplate
        ELSE IF has("optim") \/ has("performance")
        THEN OptimizationTemplate
        ELSE IF has("review") \/ has("quality")
        THEN ReviewTemplate
        ELSE FallbackHead \o Echoed(message) \o FallbackTail

\* _generate_mock_response (lines 92-327)
GenerateMockResponse(message) ==
    LET message_lower == Lower(message)
        has(k) == Contains(k, message_lower)
    IN  IF has("architect") \/ has("design") \/ has("architecture")
        THEN ArchitectureTemplate
        ELSE IF has("project") \/ has("plan") \/ has("manager")
        THEN PlanTemplate
        ELSE IF has("code") \/ has("implement") \/ has("programmer")
        THEN CodeTemplate
        ELSE IF has("review") \/ has("quality")
        THEN ReviewTemplate
        ELSE IF has("optim") \/ has("performance")
        THEN OptimizationTemplate
        ELSE FallbackHead \o Echoed(message) \o FallbackTail

RECURSIVE MockLastMessageFrom(_, _)
\* lines 77-80: the loop over reversed(messages), from index i downwards
MockLastMessageFrom(msgs, i) ==
    IF i = 0 THEN ""
    ELSE IF msgs[i].role \in {"User", "System"}
         THEN PyStr(msgs[i].content)
         ELSE MockLastMessageFrom(msgs, i - 1)

RECURSIVE MockFirstMessageFrom(_, _)
MockFirstMessageFrom(msgs, i) ==
    IF i > Len(msgs) THEN ""
    ELSE IF msgs[i].role \in {"User", "System"}
         THEN PyStr(msgs[i].content)
         ELSE MockFirstMessageFrom(msgs, i + 1)

\* faulty variant: the list is walked forwards (reversed() lost)
MockLastMessageForwards(msgs) == MockFirstMessageFrom(msgs, 1)

\* faulty variant: the text found is kept on the client between calls, so a
\* list without System or User message answers for the call before it
MockLastMessageKept(msgs) ==
    IF \E i \in 1..Len(msgs) : msgs[i].role \in {"User", "System"}
    THEN MockLastMessageFrom(msgs, Len(msgs))
    ELSE MockLastMessageFrom(messages, Len(messages))

\* lines 76-80
MockLastMessage(msgs) == MockLastMessageFrom(msgs, Len(msgs))

RECURSIVE MockPromptTokensFrom(_, _)
\* line 334
MockPromptTokensFrom(msgs, i) ==
    IF i > Len(msgs) THEN 0
    ELSE WordCount(PyStr(msgs[i].content)) + MockPromptTokensFrom(msgs, i + 1)

\* faulty variant: the completion estimate counts characters
MockCreateResultCountsChars(text, original_messages) ==
    [content |-> text,
     finish_reason |-> "stop",
     usage |-> [prompt_tokens |-> MockPromptTokensFrom(original_messages, 1),
                completion_tokens |-> Len(text)],
     cached |-> FALSE]

\* faulty variant: the finish reason tells an empty answer apart
MockCreateResultFinishVaries(text, original_messages) ==
    [content |-> text,
     finish_reason |-> IF original_messages = <<>> THEN "unknown" ELSE "stop",
     usage |-> [prompt_tokens |-> MockPromptTokensFrom(original_messages, 1),
                completion_tokens |-> WordCount(text)],
     cached |-> FALSE]

\* _create_result (lines 329-346)
MockCreateResult(text, original_messages) ==
    [content |-> text,
     finish_reason |-> "stop",
     usage |-> [prompt_tokens |-> MockPromptTokensFrom(original_messages, 1),
                completion_tokens |-> WordCount(text)],
     cached |-> FALSE]

\* create (lines 74-86)
MockCreate(msgs) ==
    Returned(MockCreateResult(GenerateMockResponse(MockLastMessage(msgs)), msgs))

----------------------------------------------------------------------------
(* count_tokens and remaining_tokens of the two clients *)

RECURSIVE CountTokensFrom(_, _)
\* gemini_client.py lines 248-252
CountTokensFrom(msgs, i) ==
    IF i > Len(msgs) THEN 0
    ELSE (IF Truthy(msgs[i].content) THEN WordCount(PyStr(msgs[i].content)) ELSE 0)
            + CountTokensFrom(msgs, i + 1)

\* GeminiChatCompletionClient.count_tokens
CountTokens(msgs) == CountTokensFrom(msgs, 1)

\* faulty variant: the difference is returned as it is
RemainingTokensUnclamped(self, msgs) == self.max_tokens - CountTokens(msgs)

\* GeminiChatCompletionClient.remaining_tokens
RemainingTokens(self, msgs) == Max(0, self.max_tokens - CountTokens(msgs))

RECURSIVE MockCountTokensFrom(_, _)
\* mock_gemini_client.py lines 397-401
MockCountTokensFrom(msgs, i) ==
    IF i > Len(msgs) THEN 0
    ELSE (IF Truthy(msgs[i].content) THEN WordCount(PyStr(msgs[i].content)) ELSE 0)
            + MockCountTokensFrom(msgs, i + 1)

RECURSIVE MockCountCharsFrom(_, _)
MockCountCharsFrom(msgs, i) ==
    IF i > Len(msgs) THEN 0
    ELSE (IF Truthy(msgs[i].content) THEN Len(PyStr(msgs[i].content)) ELSE 0)
            + MockCountCharsFrom(msgs, i + 1)

\* faulty variant: the mock counts characters, not words
MockCountTokensByChars(msgs) == MockCountCharsFrom(msgs, 1)

\* MockGeminiChatCompletionClient.count_tokens
MockCountTokens(msgs) == MockCountTokensFrom(msgs, 1)

\* MockGeminiChatCompletionClient.remaining_tokens
MockRemainingTokens(self, msgs) == Max(0, self.max_tokens - MockCountTokens(msgs))

----------------------------------------------------------------------------
(* The capability contract: one operation of either client applied to one  *)
(* message list                                                            *)

\* longest message list given to an operation of the contract
MaxContractMsgs == 2

Variants == {"live", "mock"}

ContractContents == {StrV(""), StrV(" two\twords \n"), NoneV, EmptyListV}
ContractMessages == [role : Roles, content : ContractContents]
ContractMsgLists == SeqsUpTo(ContractMessages, MaxContractMsgs)
ContractBudgets == {0, 3, 4000}

\* everything the HTTP exchange of a live create() can do
Exchanges ==
    {Response(200, JsonBody(result)) : result \in WellFormedResults \cup MalformedResults}
    \cup {Response(200, InvalidJsonBody("Attempt to decode JSON with unexpected mimetype"))}
    \cup {Response(status, TextBody(error_text)) :
              status \in ErrorStatuses, error_text \in ErrorBodies}
    \cup {Failure(message) : message \in ExceptionMessages}

\* the constructor of the variant
VariantInit(v, model, api_key, temperature, max_tokens) ==
    IF v = "live" THEN ClientInit(model, api_key, temperature, max_tokens)
    ELSE MockClientInit(model, api_key, temperature, max_tokens)

\* count_tokens of the variant
VariantCountTokens(v, msgs) ==
    IF v = "live" THEN CountTokens(msgs) ELSE MockCountTokens(msgs)

\* remaining_tokens of the variant
VariantRemainingTokens(v, self, msgs) ==
    IF v = "live" THEN RemainingTokens(self, msgs) ELSE MockRemainingTokens(self, msgs)

ContractInit ==
    /\ variant \in Variants
    /\ \E max_tokens \in ContractBudgets :
        /\ ctor_args = [model |-> "gemini-2.0-flash", api_key |-> StrV("AIza-key"),
                        temperature |-> "0.7", max_tokens |-> max_tokens]
        /\ client = VariantInit(variant, "gemini-2.0-flash", StrV("AIza-key"),
                                "0.7", max_tokens)
    /\ pc = "input"
    /\ messages \in ContractMsgLists
    /\ payload = PyNone
    /\ http = NoHttp
    /\ response_text = ""
    /\ outcome = NoOutcome
    /\ counted = NoCount
    /\ first_create = NoFirstCreate
    /\ SessionsIdle
    /\ OuterIdle

\* GeminiChatCompletionClient.create(messages), from call to return
LiveCreateApplied ==
    /\ pc = "input"
    /\ variant = "live"
    /\ \E h \in Exchanges :
        /\ payload' = ConvertMessages(client.self, messages)
        /\ http' = h
        /\ response_text' = GenerateResponse(h)
        /\ outcome' = CreateOutcome(response_text', messages)
    /\ pc' = "applied"
    /\ UNCHANGED <<ctor_args, client, messages, variant, counted, first_create,
                   sessionVars, outerVars>>

\* MockGeminiChatCompletionClient.create(messages)
MockCreateApplied ==
    /\ pc = "input"
    /\ variant = "mock"
    /\ response_text' = GenerateMockResponse(MockLastMessage(messages))
    /\ outcome' = MockCreate(messages)
    /\ pc' = "applied"
    /\ UNCHANGED <<ctor_args, client, messages, payload, http, variant, counted,
                   first_create, sessionVars, outerVars>>

\* count_tokens(messages) of either client
CountTokensApplied ==
    /\ pc = "input"
    /\ counted' = [op |-> "count_tokens",
                   value |-> VariantCountTokens(variant, messages)]
    /\ pc' = "applied"
    /\ UNCHANGED <<ctor_args, client, messages, payload, http, response_text,
                   outcome, variant, first_create, sessionVars, outerVars>>

\* remaining_tokens(messages) of either client
RemainingTokensApplied ==
    /\ pc = "input"
    /\ counted' = [op |-> "remaining_tokens",
                   value |-> VariantRemainingTokens(variant, client.self, messages)]
    /\ pc' = "applied"
    /\ UNCHANGED <<ctor_args, client, messages, payload, http, response_text,
                   outcome, variant, first_create, sessionVars, outerVars>>

ContractNext ==
    \/ LiveCreateApplied
    \/ MockCreateApplied
    \/ CountTokensApplied
    \/ RemainingTokensApplied

SpecContract == ContractInit /\ [][ContractNext]_vars

----------------------------------------------------------------------------
(* Claims C14-C17: usage estimates, fixed fields and token counting *)

RECURSIVE SumOver(_, _)
\* the sum of f over the elements of a sequence
SumOver(f(_), q) == IF q = <<>> THEN 0 ELSE f(Head(q)) + SumOver(f, Tail(q))

\* the whitespace-delimited words of a text: every position where a word ends
WordEnds(t) ==
    {i \in 1..Len(t) :
        /\ SubSeq(t, i, i) \notin {" ", "\t", "\n"}
        /\ (i = Len(t) \/ SubSeq(t, i + 1, i + 1) \in {" ", "\t", "\n"})}

WordsOfMessage(m) == Cardinality(WordEnds(TextOf(m)))

\* C14: in every result of create(), of either variant, the prompt-token
\* estimate is the sum over all input messages of the number of words of the
\* message's text, and the completion-token estimate is the number of words of
\* the returned text.
C14_UsageIsWordCount ==
    (pc = "applied" /\ outcome.kind = "returned") =>
        /\ outcome.result.usage.prompt_tokens = SumOver(WordsOfMessage, messages)
        /\ outcome.result.usage.completion_tokens =
               Cardinality(WordEnds(outcome.result.content))

C14_Witness ==
    /\ pc = "applied"
    /\ variant = "mock"
    /\ Len(messages) = 2
    /\ messages[1].content = StrV(" two\twords \n")
    /\ messages[2].content = StrV(" two\twords \n")
    /\ outcome.result.usage.prompt_tokens = 4
    /\ outcome.result.usage.completion_tokens > 4

\* C15: every result of create(), of either variant, has finish reason "stop"
\* and cached false, whatever the messages and whatever the backend returned.
C15_StopAndNotCached ==
    (pc = "applied" /\ outcome.kind = "returned") =>
        /\ outcome.result.finish_reason = "stop"
        /\ outcome.result.cached = FALSE

C15_Witness ==
    /\ pc = "applied"
    /\ variant = "mock"
    /\ messages = <<>>
    /\ outcome.kind = "returned"
    /\ outcome.result.finish_reason = "stop"
    /\ ~outcome.result.cached

\* the token count the operation count_tokens of the client in use gives
CountOf(msgs) == VariantCountTokens(variant, msgs)

\* C16: remaining_tokens(messages) is max(0, max_tokens - count_tokens(messages)):
\* the difference when the count fits the budget, 0 when it exceeds it, and so
\* never negative.
C16_RemainingNeverNegative ==
    (pc = "applied" /\ counted.op = "remaining_tokens") =>
        /\ counted.value >= 0
        /\ CountOf(messages) <= client.self.max_tokens =>
               counted.value = client.self.max_tokens - CountOf(messages)
        /\ CountOf(messages) > client.self.max_tokens => counted.value = 0

C16_Witness ==
    /\ pc = "applied"
    /\ variant = "live"
    /\ counted.op = "remaining_tokens"
    /\ client.self.max_tokens = 3
    /\ CountOf(messages) = 4
    /\ counted.value = 0

\* the other variant
Other(v) == IF v = "live" THEN "mock" ELSE "live"

\* C17: for every message list and equal max-token budget, the live and the
\* mock client return the same count_tokens and the same remaining_tokens.
C17_TokenCountingSameInBothVariants ==
    /\ (pc = "applied" /\ counted.op = "count_tokens") =>
           counted.value = VariantCountTokens(Other(variant), messages)
    /\ (pc = "applied" /\ counted.op = "remaining_tokens") =>
           counted.value = VariantRemainingTokens(Other(variant), client.self, messages)

C17_Witness ==
    /\ pc = "applied"
    /\ variant = "mock"
    /\ counted.op = "remaining_tokens"
    /\ client.self.max_tokens = 3
    /\ Len(messages) = 2
    /\ messages[1].content = NoneV
    /\ messages[2].content = StrV(" two\twords \n")
    /\ counted.value = 1

----------------------------------------------------------------------------
(* The mock client's choice of response: create() applied to message lists *)
(* whose texts mention the keywords                                        *)

\* longest message list given to the mock create()
MaxMockMsgs == 2

\* a text of 101 characters
LongText ==
    "la la la la la la la la la la la la la la la la la la la la la la la la la la la la la la la la la la"

MockTexts ==
    {"", "hello world", "Review and OPTIMIZE", "Design a plan",
     "quality of performance", "optimization", "implement the project",
     "Programmer", LongText}

MockContents == {StrV(t) : t \in MockTexts} \cup {NoneV}
MockMessages == [role : Roles, content : MockContents]
MockMsgLists == SeqsUpTo(MockMessages, MaxMockMsgs)

MockSelectInit ==
    /\ variant = "mock"
    /\ \E api_key \in {NoneV, StrV("AIza-key")} :
        /\ ctor_args = [model |-> "gemini-2.0-flash", api_key |-> api_key,
                        temperature |-> "0.7", max_tokens |-> 4000]
        /\ client = MockClientInit("gemini-2.0-flash", api_key, "0.7", 4000)
    /\ pc = "input"
    /\ messages \in MockMsgLists
    /\ payload = PyNone
    /\ http = NoHttp
    /\ response_text = ""
    /\ outcome = NoOutcome
    /\ counted = NoCount
    /\ first_create = NoFirstCreate
    /\ SessionsIdle
    /\ OuterIdle

MockSelectNext == MockCreateApplied

SpecMockSelect == MockSelectInit /\ [][MockSelectNext]_vars

----------------------------------------------------------------------------
(* Claims C18-C19: what the mock answers *)

\* the keyword groups in priority order, and the response of each
KeywordGroups ==
    << {"architect", "design", "architecture"},
       {"project", "plan", "manager"},
       {"code", "implement", "programmer"},
       {"review", "quality"},
       {"optim", "performance"} >>

GroupResponses ==
    << "# System Architecture Design",
       "# Implementation Plan",
       "# FastAPI Implementation",
       "# Code Review Report",
       "# Code Optimization Report" >>

\* the text, in lower case, has a keyword of group g as a substring
Mentions(t, g) == \E k \in KeywordGroups[g] : Contains(k, Lower(t))

\* the text of the last message that is a System or User message, "" if none
SelectedText(msgs) ==
    LET relevant == OfRoles(msgs, {"System", "User"})
    IN  IF relevant = <<>> THEN "" ELSE TextOf(relevant[Len(relevant)])

IsFallback(t) ==
    /\ Len(t) >= 27
    /\ SubSeq(t, 1, 27) = "Thank you for your message."

\* C18: the mock answers with the response of the highest-priority keyword
\* group that has a keyword in the text (case-insensitive substring test), and
\* with the generic fallback when no group has one.
C18_FirstMatchingGroupWins ==
    (pc = "applied" /\ variant = "mock" /\ outcome.kind = "returned") =>
        LET t == SelectedText(messages)
        IN  /\ \A g \in 1..5 :
                (Mentions(t, g) /\ \A h \in 1..(g - 1) : ~Mentions(t, h)) =>
                    outcome.result.content = GroupResponses[g]
            /\ (\A g \in 1..5 : ~Mentions(t, g)) => IsFallback(outcome.result.content)

C18_Witness ==
    /\ pc = "applied"
    /\ messages = <<[role |-> "User", content |-> StrV("Review and OPTIMIZE")]>>
    /\ outcome.result.content = "# Code Review Report"

\* C19: the mock's response is decided by the text of the last System or User
\* message alone; Assistant and FunctionResult messages and earlier messages
\* have no influence, and without a System or User message the choice is made
\* on the empty text, which gives the fallback.
C19_LastSystemOrUserMessageDecides ==
    (pc = "applied" /\ variant = "mock" /\ outcome.kind = "returned") =>
        /\ outcome.result.content = GenerateMockResponse(SelectedText(messages))
        /\ NumOfRoles(messages, {"System", "User"}) = 0 =>
               /\ outcome.result.content = GenerateMockResponse("")
               /\ IsFallback(outcome.result.content)

C19_Witness ==
    /\ pc = "applied"
    /\ messages = <<[role |-> "User", content |-> StrV("optimization")],
                    [role |-> "Assistant", content |-> StrV("Design a plan")]>>
    /\ outcome.result.content = "# Code Optimization Report"

----------------------------------------------------------------------------
(* One mock client called repeatedly: create, count_tokens, remaining_tokens *)
(* and close in any order.  pc is "fresh" until the first call and then the *)
(* name of the latest call; messages is the argument of the latest create.  *)

MockCallMsgLists ==
    { <<>>,
      <<[role |-> "Assistant", content |-> StrV("Design a plan")]>>,
      <<[role |-> "User", content |-> StrV("optimization")]>>,
      <<[role |-> "System", content |-> StrV("Review and OPTIMIZE")],
        [role |-> "FunctionResult", content |-> NoneV]>> }

MockCallsInit ==
    /\ variant = "mock"
    /\ \E api_key \in {NoneV, StrV("AIza-key")}, max_tokens \in {0, 4000} :
        /\ ctor_args = [model |-> "gemini-2.0-flash", api_key |-> api_key,
                        temperature |-> "0.7", max_tokens |-> max_tokens]
        /\ client = MockClientInit("gemini-2.0-flash", api_key, "0.7", max_tokens)
    /\ pc = "fresh"
    /\ messages = <<>>
    /\ payload = PyNone
    /\ http = NoHttp
    /\ response_text = ""
    /\ outcome = NoOutcome
    /\ counted = NoCount
    /\ first_create = NoFirstCreate
    /\ SessionsIdle
    /\ OuterIdle

\* create(messages), lines 74-86; a create that is the first call on the
\* client is remembered as what a fresh client answers
MockCreateCalled ==
    \E msgs \in MockCallMsgLists :
        /\ outcome' = MockCreate(msgs)
        /\ response_text' = outcome'.result.content
        /\ messages' = msgs
        /\ first_create' = IF pc = "fresh"
                           THEN [made |-> TRUE, messages |-> msgs,
                                 text |-> outcome'.result.content]
                           ELSE first_create
        /\ pc' = "create"
        /\ UNCHANGED <<ctor_args, client, payload, http, variant, counted,
                       sessionVars, outerVars>>

\* count_tokens(messages), lines 395-401
MockCountTokensCalled ==
    \E msgs \in MockCallMsgLists :
        /\ counted' = [op |-> "count_tokens", value |-> MockCountTokens(msgs)]
        /\ pc' = "count_tokens"
        /\ UNCHANGED <<ctor_args, client, messages, payload, http,
                       response_text, outcome, variant, first_create,
                       sessionVars, outerVars>>

\* remaining_tokens(messages), lines 403-406
MockRemainingTokensCalled ==
    \E msgs \in MockCallMsgLists :
        /\ counted' = [op |-> "remaining_tokens",
                       value |-> MockRemainingTokens(client.self, msgs)]
        /\ pc' = "remaining_tokens"
        /\ UNCHANGED <<ctor_args, client, messages, payload, http,
                       response_text, outcome, variant, first_create,
                       sessionVars, outerVars>>

\* close(), lines 364-366: pass
MockCloseCalled ==
    /\ counted' = [op |-> "close"]
    /\ pc' = "close"
    /\ UNCHANGED <<ctor_args, client, messages, payload, http, response_text,
                   outcome, variant, first_create, sessionVars, outerVars>>

MockCallsNext ==
    \/ MockCreateCalled
    \/ MockCountTokensCalled
    \/ MockRemainingTokensCalled
    \/ MockCloseCalled

SpecMockCalls == MockCallsInit /\ [][MockCallsNext]_vars

----------------------------------------------------------------------------
(* Claim C20: the mock keeps nothing between calls *)

\* C20: whatever calls were made on a mock client before, create(messages)
\* returns the text a fresh client returns for the same messages, and the
\* model, api_key, temperature and max_tokens fields stay as constructed.
C20_MockKeepsNothingBetweenCalls ==
    /\ client.self = Fields(ctor_args.model, ctor_args.api_key,
                            ctor_args.temperature, ctor_args.max_tokens)
    /\ (pc = "create" /\ first_create.made /\ first_create.messages = messages) =>
           /\ outcome.kind = "returned"
           /\ outcome.result.content = first_create.text

\* a create on a fresh client, a close later, and last the same create again
C20_Witness ==
    /\ pc = "create"
    /\ first_create.made
    /\ first_create.messages = messages
    /\ counted = [op |-> "close"]
    /\ outcome.result.content = first_create.text
    /\ outcome.result.content = "# Code Review Report"

----------------------------------------------------------------------------
(* The translator called twice on one client with one message list *)

TranslateTwiceInit ==
    /\ \E model \in Models, temperature \in Temperatures, max_tokens \in TokenBudgets :
        /\ ctor_args = [model |-> model, api_key |-> StrV("AIza-key"),
                        temperature |-> temperature, max_tokens |-> max_tokens]
        /\ client = ClientInit(model, StrV("AIza-key"), temperature, max_tokens)
    /\ SessionsIdle
    /\ OuterIdle
    /\ ContractIdle
    /\ pc = "input"
    /\ messages \in CallMsgLists
    /\ payload = PyNone
    /\ http = NoHttp
    /\ response_text = ""
    /\ outcome = NoOutcome

\* self._convert_messages(messages), lines 96-146, the first time
TranslateFirst ==
    /\ pc = "input"
    /\ payload' = ConvertMessages(client.self, messages)
    /\ first_payload' = payload'
    /\ pc' = "translated"
    /\ UNCHANGED <<ctor_args, client, messages, http, response_text, outcome,
                   stream, workflowVars, agentVars, sessionVars, contractVars>>

\* self._convert_messages(messages), lines 96-146, once more
TranslateAgain ==
    /\ pc = "translated"
    /\ payload' = ConvertMessages(client.self, messages)
    /\ pc' = "again"
    /\ UNCHANGED <<ctor_args, client, messages, http, response_text, outcome,
                   sessionVars, contractVars, outerVars>>

TranslateTwiceNext == TranslateFirst \/ TranslateAgain

SpecTranslateTwice == TranslateTwiceInit /\ [][TranslateTwiceNext]_vars

----------------------------------------------------------------------------
(* Claim C21: the translator is a pure function of messages and configuration *)

\* C21: translating the same message list on the same client a second time
\* gives the payload of the first time, and a translation changes neither the
\* message list nor the client's fields and makes no HTTP exchange and opens no
\* session.
C21_TranslatorIsPure ==
    /\ [](pc = "again" => payload = first_payload)
    /\ [][/\ messages' = messages
          /\ client' = client
          /\ http' = http
          /\ sessions' = sessions]_vars

C21_Witness ==
    /\ pc = "again"
    /\ Len(messages) = 2
    /\ messages[1].role = "System"
    /\ messages[2].role = "FunctionResult"
    /\ payload = first_payload
    /\ payload.contents = <<TextEntry("Function result: None")>>
    /\ http = NoHttp

----------------------------------------------------------------------------
(* create_stream of either client, consumed item by item *)

Raised(e) == [kind |-> "raised", error |-> e]

\* a messages argument that is not iterable: "for message in messages" and
\* reversed(messages) raise TypeError inside create(), which re-raises it
NotIterable == [py |-> "None"]

\* a messages argument that is a list
ListV(msgs) == [py |-> "list", items |-> msgs]

StreamArguments == {ListV(msgs) : msgs \in CallMsgLists} \cup {NotIterable}

\* create(messages) of the variant, from call to return or raise
VariantCreate(v, arg, h) ==
    IF arg = NotIterable THEN Raised("TypeError")
    ELSE IF v = "live" THEN CreateOutcome(GenerateResponse(h), arg.items)
    ELSE MockCreate(arg.items)

\* the generator object before its body has run
NewStream == [status |-> "created", items |-> <<>>]

\* faulty variant: a failure of create() is yielded as an item
StreamAfterCreateYieldsError(s, o) ==
    IF o.kind = "returned"
    THEN [status |-> "suspended", items |-> Append(s.items, o.result)]
    ELSE [status |-> "suspended", items |-> Append(s.items, o.error)]

\* "result = await self.create(...)" then "yield result": the generator is
\* suspended at the yield, or the exception of create() leaves the generator
StreamAfterCreate(s, o) ==
    IF o.kind = "returned"
    THEN [status |-> "suspended", items |-> Append(s.items, o.result)]
    ELSE [status |-> "raised", items |-> s.items, error |-> o.error]

\* resumed after the yield, the body ends
StreamAfterYield(s) == [status |-> "ended", items |-> s.items]

StreamInit ==
    /\ variant \in Variants
    /\ ctor_args = [model |-> "gemini-2.0-flash", api_key |-> StrV("AIza-key"),
                    temperature |-> "0.7", max_tokens |-> 4000]
    /\ client = VariantInit(variant, "gemini-2.0-flash", StrV("AIza-key"),
                            "0.7", 4000)
    /\ pc = "input"
    /\ messages \in StreamArguments
    /\ payload = PyNone
    /\ http = NoHttp
    /\ response_text = ""
    /\ outcome = NoOutcome
    /\ counted = NoCount
    /\ first_create = NoFirstCreate
    /\ SessionsIdle
    /\ OuterIdle

\* create_stream(messages): an async generator is made, its body has not run
CreateStreamCalled ==
    /\ pc = "input"
    /\ stream' = NewStream
    /\ pc' = "streaming"
    /\ UNCHANGED <<ctor_args, client, messages, payload, http, response_text,
                   outcome, sessionVars, contractVars, first_payload,
                   workflowVars, agentVars>>

\* the consumer asks for the first item: the body runs create() up to the yield
StreamFirstNext ==
    /\ pc = "streaming"
    /\ stream.status = "created"
    /\ \E h \in Exchanges :
        /\ http' = IF variant = "live" /\ messages # NotIterable THEN h ELSE http
        /\ outcome' = VariantCreate(variant, messages, h)
    /\ stream' = StreamAfterCreate(stream, outcome')
    /\ UNCHANGED <<ctor_args, client, pc, messages, payload, response_text,
                   sessionVars, contractVars, first_payload, workflowVars,
                   agentVars>>

\* the consumer asks for the next item: the body resumes after the yield
StreamSecondNext ==
    /\ pc = "streaming"
    /\ stream.status = "suspended"
    /\ stream' = StreamAfterYield(stream)
    /\ pc' = "consumed"
    /\ UNCHANGED <<ctor_args, client, messages, payload, http, response_text,
                   outcome, sessionVars, contractVars, first_payload,
                   workflowVars, agentVars>>

StreamNext == CreateStreamCalled \/ StreamFirstNext \/ StreamSecondNext

SpecStream == StreamInit /\ [][StreamNext]_vars

----------------------------------------------------------------------------
(* Claim C22: the stream is the one result of create() *)

\* C22: in both variants the stream yields the result of its create() call as
\* its only item and then ends; when create() raises, the stream has yielded
\* nothing and the consumer gets the exception of create().
C22_StreamYieldsTheOneResult ==
    /\ stream.status \in {"suspended", "ended"} =>
           /\ outcome.kind = "returned"
           /\ stream.items = <<outcome.result>>
    /\ stream.status = "created" => stream.items = <<>>
    /\ (pc \in {"streaming", "consumed"} /\ outcome.kind = "raised") =>
           /\ stream.status = "raised"
           /\ stream.items = <<>>
           /\ stream.error = outcome.error
    /\ pc = "consumed" => stream.status = "ended"

C22_Witness ==
    /\ variant = "live"
    /\ stream.status = "ended"
    /\ http = Response(200, JsonBody(TwoCandidates))
    /\ Len(stream.items) = 1
    /\ stream.items[1].finish_reason = "stop"

\* the failing create(): nothing yielded, the TypeError reaches the consumer
C22_WitnessFailure ==
    /\ variant = "mock"
    /\ stream.status = "raised"
    /\ stream.items = <<>>
    /\ stream.error = "TypeError"

----------------------------------------------------------------------------
(* ProgrammingWorkflow: configuration, validation and construction *)

RequiredAgents ==
    {"architect", "project_manager", "programmer", "code_reviewer", "code_optimizer"}

OpenAIPlaceholderKey == "your_openai_api_key_here"

\* the keys after ModelConfig.__post_init__ has consulted the environment
GeminiKeys == {NoneV, StrV(""), StrV("AIza-key")}
OpenAIKeys == {NoneV, StrV(""), StrV("sk-key"), StrV(OpenAIPlaceholderKey)}
GeminiModels == {"gemini-2.0-flash", ""}

\* config.agents: the five created by WorkflowConfig.__init__, one removed, one added
AgentSets ==
    {RequiredAgents, RequiredAgents \ {"code_optimizer"}, RequiredAgents \cup {"tester"}}

ModelConfigs ==
    [gemini_api_key : GeminiKeys, gemini_model : GeminiModels,
     openai_api_key : OpenAIKeys, openai_model : {"gpt-4o-mini"},
     temperature : {"0.7"}, max_tokens : {4000}]

WorkflowConfigs == [model_config : ModelConfigs, agents : AgentSets]

\* what the import chain at module load leaves in the two module globals
ModuleGlobals ==
    { [GEMINI_CLIENT_AVAILABLE |-> TRUE, GEMINI_MOCK_MODE |-> FALSE],
      [GEMINI_CLIENT_AVAILABLE |-> TRUE, GEMINI_MOCK_MODE |-> TRUE],
      [GEMINI_CLIENT_AVAILABLE |-> FALSE, GEMINI_MOCK_MODE |-> FALSE] }

ValidOk == [raises |-> FALSE, value |-> TRUE]
ValidRaises(msg) == [raises |-> TRUE, error |-> "ValueError", message |-> msg]

\* faulty variant: a key is demanded for each provider ("or" for "and")
ValidateNeedsBothKeys(cfg) ==
    IF ~Truthy(cfg.model_config.gemini_api_key) \/ ~Truthy(cfg.model_config.openai_api_key)
    THEN ValidRaises("At least one API key (Gemini or OpenAI) must be provided")
    ELSE IF ~(RequiredAgents \subseteq cfg.agents)
         THEN ValidRaises("Missing agent configurations")
         ELSE ValidOk

\* WorkflowConfig.validate, config.py lines 271-285
Validate(cfg) ==
    IF ~Truthy(cfg.model_config.gemini_api_key) /\ ~Truthy(cfg.model_config.openai_api_key)
    THEN ValidRaises("At least one API key (Gemini or OpenAI) must be provided")
    ELSE IF ~(RequiredAgents \subseteq cfg.agents)
         THEN ValidRaises("Missing agent configurations")
         ELSE ValidOk

GeminiClient(module, mc) ==
    [kind |-> "gemini", closed |-> FALSE,
     client |-> IF module.GEMINI_MOCK_MODE
                THEN MockClientInit(mc.gemini_model, mc.gemini_api_key,
                                    mc.temperature, mc.max_tokens)
                ELSE ClientInit(mc.gemini_model, mc.gemini_api_key,
                                mc.temperature, mc.max_tokens)]

OpenAIClient(mc) ==
    [kind |-> "openai", closed |-> FALSE,
     client |-> [state |-> "ok",
                 self |-> Fields(mc.openai_model, mc.openai_api_key,
                                 mc.temperature, mc.max_tokens)]]

ClientRaises(msg) == [kind |-> "raised", error |-> "ValueError", message |-> msg]

OpenAIKeyUsable(mc) ==
    Truthy(mc.openai_api_key) /\ mc.openai_api_key # StrV(OpenAIPlaceholderKey)

\* lines 117-129: the error of the last branch
NoClientError(module, mc) ==
    IF ~Truthy(mc.gemini_api_key) /\ ~OpenAIKeyUsable(mc)
    THEN ClientRaises("No valid API key found")
    ELSE ClientRaises("Available API keys, but client creation failed")

\* faulty variant: the OpenAI branch is tested first
CreateModelClientPrefersOpenAI(module, mc) ==
    IF OpenAIKeyUsable(mc)
    THEN OpenAIClient(mc)
    ELSE IF /\ module.GEMINI_CLIENT_AVAILABLE
            /\ Truthy(mc.gemini_api_key)
            /\ mc.gemini_model # ""
         THEN GeminiClient(module, mc)
         ELSE NoClientError(module, mc)

\* ProgrammingWorkflow._create_model_client, lines 87-129
CreateModelClient(module, mc) ==
    IF /\ module.GEMINI_CLIENT_AVAILABLE
       /\ Truthy(mc.gemini_api_key)
       /\ mc.gemini_model # ""
    THEN GeminiClient(module, mc)
    ELSE IF OpenAIKeyUsable(mc)
         THEN OpenAIClient(mc)
         ELSE NoClientError(module, mc)

\* lines 78-85
InitialWorkflowState ==
    [current_phase |-> "initialization", start_time |-> PyNone,
     end_time |-> PyNone, messages |-> <<>>, artifacts |-> <<>>,
     status |-> "ready"]

\* the object while __init__ runs: nothing validated or created yet
WorkflowBeingBuilt(module) ==
    [state |-> "constructing", module |-> module, validated |-> FALSE,
     model_client |-> PyNone, agents |-> {}, team |-> PyNone,
     workflow_state |-> PyNone, error |-> PyNone, cleanups |-> 0]

ConstructInit ==
    /\ config \in WorkflowConfigs
    /\ \E module \in ModuleGlobals : workflow = WorkflowBeingBuilt(module)
    /\ pc = "input"
    /\ clock = 0
    /\ run_result = NoRunResult
    /\ first_payload = PyNone
    /\ stream = NoStream
    /\ project_status = NoProjectStatus
    /\ review_result = NoReviewResult
    /\ ctor_args = NoArgs
    /\ client = NoClient
    /\ messages = <<>>
    /\ payload = PyNone
    /\ http = NoHttp
    /\ response_text = ""
    /\ outcome = NoOutcome
    /\ SessionsIdle
    /\ ContractIdle

constructFixed ==
    <<ctor_args, client, messages, payload, http, response_text, outcome,
      sessionVars, contractVars, first_payload, stream, agentVars>>

\* __init__ line 63: self.config.validate()
InitValidates ==
    /\ pc = "input"
    /\ LET v == Validate(config)
       IN  IF v.raises
           THEN /\ workflow' = [workflow EXCEPT !.state = "raised", !.error = v]
                /\ pc' = "failed"
           ELSE /\ workflow' = [workflow EXCEPT !.validated = TRUE]
                /\ pc' = "validated"
    /\ UNCHANGED <<config, clock, run_result, constructFixed>>

\* __init__ line 69: self.model_client = self._create_model_client()
InitCreatesModelClient ==
    /\ pc = "validated"
    /\ LET c == CreateModelClient(workflow.module, config.model_config)
       IN  IF c.kind = "raised"
           THEN /\ workflow' = [workflow EXCEPT !.state = "raised", !.error = c]
                /\ pc' = "failed"
           ELSE /\ workflow' = [workflow EXCEPT !.model_client = c]
                /\ pc' = "client"
    /\ UNCHANGED <<config, clock, run_result, constructFixed>>

\* __init__ lines 72-85: the agents, the team and the workflow state
InitCreatesAgentsAndTeam ==
    /\ pc = "client"
    /\ workflow' = [workflow EXCEPT !.state = "ok",
                                    !.agents = RequiredAgents,
                                    !.team = [participants |-> RequiredAgents],
                                    !.workflow_state = InitialWorkflowState]
    /\ pc' = "ready"
    /\ UNCHANGED <<config, clock, run_result, constructFixed>>

ConstructNext == InitValidates \/ InitCreatesModelClient \/ InitCreatesAgentsAndTeam

SpecConstruct == ConstructInit /\ [][ConstructNext]_vars

----------------------------------------------------------------------------
(* Claims C23-C24: validation and the choice of the model client *)

\* the key is a non-empty string
KeyPresent(k) == k.py = "str" /\ Len(k.s) > 0

\* C23: validate() raises ValueError when neither key is configured and
\* returns true when a key is present and the five required agents are
\* configured; the constructor has validated before a model client, an agent
\* or the team exists, and creates none of them when validation fails.
C23_ValidationComesFirst ==
    LET mc == config.model_config
        no_key == ~KeyPresent(mc.gemini_api_key) /\ ~KeyPresent(mc.openai_api_key)
        built == \/ workflow.model_client # PyNone
                 \/ workflow.agents # {}
                 \/ workflow.team # PyNone
    IN  /\ pc # "input" =>
            /\ no_key => /\ workflow.state = "raised"
                         /\ workflow.error.error = "ValueError"
                         /\ ~workflow.validated
            /\ (~no_key /\ RequiredAgents \subseteq config.agents) =>
                   workflow.validated
        /\ built => workflow.validated
        /\ pc = "input" => ~built

C23_Witness ==
    /\ pc = "ready"
    /\ workflow.validated
    /\ config.model_config.gemini_api_key = NoneV
    /\ config.model_config.openai_api_key = StrV("sk-key")
    /\ workflow.model_client.kind = "openai"

\* the Gemini branch applies
GeminiConfigured ==
    /\ workflow.module.GEMINI_CLIENT_AVAILABLE
    /\ KeyPresent(config.model_config.gemini_api_key)
    /\ Len(config.model_config.gemini_model) > 0

\* the OpenAI key is non-empty and not the placeholder
OpenAIConfigured ==
    /\ KeyPresent(config.model_config.openai_api_key)
    /\ config.model_config.openai_api_key.s # "your_openai_api_key_here"

\* C24: of the configurations that passed validate(), those with the Gemini
\* client available and a Gemini key and model get the Gemini client whatever
\* the OpenAI key is; the OpenAI client is created only when Gemini is not
\* selected and the OpenAI key is non-empty and not the placeholder; every
\* other configuration ends in a ValueError and no client.
C24_GeminiPreferred ==
    (workflow.validated /\ pc # "validated") =>
        /\ GeminiConfigured =>
               /\ workflow.model_client # PyNone
               /\ workflow.model_client.kind = "gemini"
        /\ (~GeminiConfigured /\ OpenAIConfigured) =>
               /\ workflow.model_client # PyNone
               /\ workflow.model_client.kind = "openai"
        /\ (~GeminiConfigured /\ ~OpenAIConfigured) =>
               /\ workflow.model_client = PyNone
               /\ workflow.state = "raised"
               /\ workflow.error.error = "ValueError"
               /\ pc = "failed"

C24_Witness ==
    /\ pc = "ready"
    /\ config.model_config.openai_api_key = StrV("sk-key")
    /\ GeminiConfigured
    /\ workflow.model_client.kind = "gemini"

\* validate() passed on the placeholder key alone, and no client was created
C24_WitnessPlaceholder ==
    /\ pc = "failed"
    /\ workflow.validated
    /\ config.model_config.gemini_api_key = NoneV
    /\ config.model_config.openai_api_key = StrV("your_openai_api_key_here")
    /\ workflow.model_client = PyNone

----------------------------------------------------------------------------
(* ProgrammingWorkflow.run_workflow, step by step, on a constructed workflow *)

\* most run_workflow calls made on one workflow object
MaxRuns == 2

\* how far the clock has moved on when datetime.now() is read again
Ticks == {0, 1}

\* the marker of a code block, line 337: three backquotes, written with a
\* character that a string constant can hold
CodeFence == "~~~"

TeamMessage(source, content) == [source |-> source, content |-> content]

\* what team.run_stream can hand back as task_result.messages
TeamResults ==
    { <<>>,
      <<TeamMessage("architect", "Architecture DESIGN"),
        TeamMessage("programmer", CodeFence \o "print(1)" \o CodeFence),
        TeamMessage("user", "plan")>>,
      <<TeamMessage("project_manager", "Milestone 1"),
        TeamMessage("code_reviewer", "Quality is fine"),
        TeamMessage("code_optimizer", "no change")>> }

\* a datetime: t seconds after the workflow object was made
TimeV(t) == [py |-> "datetime", t |-> t]

\* a number of seconds
FloatV(x) == [py |-> "float", x |-> x]

EmptyArtifacts ==
    [architecture_design |-> PyNone, implementation_plan |-> PyNone,
     source_code |-> <<>>, review_reports |-> <<>>, optimizations |-> <<>>,
     documentation |-> <<>>]

\* lines 323-352: one message of the loop (the timestamps are left out)
ExtractOne(artifacts, message) ==
    LET content == message.content
        lower == Lower(content)
    IN  IF message.source = "architect"
        THEN IF Contains("architecture", lower) \/ Contains("design", lower)
             THEN [artifacts EXCEPT !.architecture_design = StrV(content)]
             ELSE artifacts
        ELSE IF message.source = "project_manager"
        THEN IF Contains("plan", lower) \/ Contains("milestone", lower)
             THEN [artifacts EXCEPT !.implementation_plan = StrV(content)]
             ELSE artifacts
        ELSE IF message.source = "programmer"
        THEN IF Contains(CodeFence, content)
             THEN [artifacts EXCEPT !.source_code = Append(@, content)]
             ELSE artifacts
        ELSE IF message.source = "code_reviewer"
        THEN IF Contains("review", lower) \/ Contains("quality", lower)
             THEN [artifacts EXCEPT !.review_reports = Append(@, content)]
             ELSE artifacts
        ELSE IF message.source = "code_optimizer"
        THEN IF Contains("optimization", lower) \/ Contains("performance", lower)
             THEN [artifacts EXCEPT !.optimizations = Append(@, content)]
             ELSE artifacts
        ELSE artifacts

RECURSIVE ExtractFrom(_, _, _)
ExtractFrom(artifacts, msgs, i) ==
    IF i > Len(msgs) THEN artifacts
    ELSE ExtractFrom(ExtractOne(artifacts, msgs[i]), msgs, i + 1)

\* _extract_artifacts, lines 310-354
ExtractArtifacts(msgs) == ExtractFrom(EmptyArtifacts, msgs, 1)

\* _generate_workflow_summary, lines 356-385
GenerateWorkflowSummary(ws) ==
    [duration_seconds |-> IF ws.start_time # PyNone /\ ws.end_time # PyNone
                          THEN FloatV(ws.end_time.t - ws.start_time.t) ELSE PyNone,
     total_messages |-> Len(ws.messages),
     artifacts_generated |->
         [architecture_design |-> ws.artifacts.architecture_design # PyNone,
          implementation_plan |-> ws.artifacts.implementation_plan # PyNone,
          source_code_files |-> Len(ws.artifacts.source_code),
          review_reports |-> Len(ws.artifacts.review_reports),
          optimizations |-> Len(ws.artifacts.optimizations)]]

\* lines 211-216
StateAtStart(ws, now) ==
    [ws EXCEPT !.status = "running", !.start_time = TimeV(now),
               !.current_phase = "architecture_design"]

\* _execute_workflow lines 301-302: messages and artifacts stored
StateWithMessages(ws, msgs) ==
    [ws EXCEPT !.messages = msgs, !.artifacts = ExtractArtifacts(msgs)]

\* lines 226-230
StateAtCompletion(ws, now) ==
    [ws EXCEPT !.status = "completed", !.end_time = TimeV(now),
               !.current_phase = "completed"]

\* faulty variant: the handler records the time but not the failure
StateAtFailureStillRunning(ws, now) == [ws EXCEPT !.end_time = TimeV(now)]

\* lines 244-248
StateAtFailure(ws, now) == [ws EXCEPT !.status = "failed", !.end_time = TimeV(now)]

\* lines 234-239 and 250-254: the dictionary run_workflow is about to return
SuccessResult(result) == [status |-> "success", result |-> result, handed |-> FALSE]
ErrorResult(e) == [status |-> "error", error |-> e, handed |-> FALSE]

\* faulty variant: cleanup() is reached on the success path only
CleanupOnSuccessOnly(w, r, close_raises) ==
    IF r.status = "error" THEN w
    ELSE [w EXCEPT !.cleanups = @ + 1,
                   !.close_calls = @ + 1,
                   !.close_raised = close_raises,
                   !.model_client.closed = @ \/ ~close_raises]

\* "finally: await self.cleanup()", lines 256-258 and 387-394: close() is
\* awaited and what it raises is logged
Cleanup(w, r, close_raises) ==
    [w EXCEPT !.cleanups = @ + 1,
              !.close_calls = @ + 1,
              !.close_raised = close_raises,
              !.model_client.closed = @ \/ ~close_raises]

\* close() of the two Gemini clients is "pass"; the OpenAI client's can raise
CloseOutcomes(model_client) ==
    IF model_client.kind = "gemini" THEN {FALSE} ELSE {FALSE, TRUE}

RunConfigs ==
    { [model_config |-> [gemini_api_key |-> StrV("AIza-key"),
                         gemini_model |-> "gemini-2.0-flash",
                         openai_api_key |-> NoneV, openai_model |-> "gpt-4o-mini",
                         temperature |-> "0.7", max_tokens |-> 4000],
       agents |-> RequiredAgents],
      [model_config |-> [gemini_api_key |-> NoneV,
                         gemini_model |-> "gemini-2.0-flash",
                         openai_api_key |-> StrV("sk-key"), openai_model |-> "gpt-4o-mini",
                         temperature |-> "0.7", max_tokens |-> 4000],
       agents |-> RequiredAgents] }

\* the object __init__ leaves behind, with the counters of this specification
ConstructedWorkflow(module, cfg) ==
    [state |-> "ok", module |-> module, validated |-> TRUE,
     model_client |-> CreateModelClient(module, cfg.model_config),
     agents |-> RequiredAgents, team |-> [participants |-> RequiredAgents],
     workflow_state |-> InitialWorkflowState, error |-> PyNone,
     runs |-> 0, cleanups |-> 0, close_calls |-> 0, close_raised |-> FALSE]

RunInit ==
    /\ config \in RunConfigs
    /\ workflow = ConstructedWorkflow(
           [GEMINI_CLIENT_AVAILABLE |-> TRUE, GEMINI_MOCK_MODE |-> FALSE], config)
    /\ pc = "ready"
    /\ clock = 0
    /\ run_result = NoRunResult
    /\ first_payload = PyNone
    /\ stream = NoStream
    /\ project_status = NoProjectStatus
    /\ review_result = NoReviewResult
    /\ ctor_args = NoArgs
    /\ client = NoClient
    /\ messages = <<>>
    /\ payload = PyNone
    /\ http = NoHttp
    /\ response_text = ""
    /\ outcome = NoOutcome
    /\ SessionsIdle
    /\ ContractIdle

\* run_workflow is called: lines 209-216
RunStarts ==
    /\ pc \in {"ready", "returned"}
    /\ workflow.runs < MaxRuns
    /\ \E tick \in Ticks :
        /\ clock' = clock + tick
        /\ workflow' = [workflow EXCEPT
               !.runs = @ + 1,
               !.workflow_state = StateAtStart(@, clock')]
    /\ run_result' = NoRunResult
    /\ pc' = "running"
    /\ UNCHANGED <<config, constructFixed>>

\* the try body runs to its return statement: lines 218-239 and 294-308
TeamCompletes ==
    /\ pc = "running"
    /\ \E msgs \in TeamResults, tick \in Ticks :
        LET stored == StateWithMessages(workflow.workflow_state, msgs)
            result == [messages |-> msgs, artifacts |-> stored.artifacts,
                       summary |-> GenerateWorkflowSummary(stored)]
        IN  /\ clock' = clock + tick
            /\ workflow' = [workflow EXCEPT
                   !.workflow_state = StateAtCompletion(stored, clock')]
            /\ run_result' = SuccessResult(result)
    /\ pc' = "finally"
    /\ UNCHANGED <<config, constructFixed>>

\* the team raises an Exception: lines 241-254
TeamFails ==
    /\ pc = "running"
    /\ \E tick \in Ticks :
        /\ clock' = clock + tick
        /\ workflow' = [workflow EXCEPT
               !.workflow_state = StateAtFailure(@, clock')]
    /\ run_result' = ErrorResult("RuntimeError: team failed")
    /\ pc' = "finally"
    /\ UNCHANGED <<config, constructFixed>>

\* the finally block: lines 256-258
RunCleansUp ==
    /\ pc = "finally"
    /\ \E close_raises \in CloseOutcomes(workflow.model_client) :
        workflow' = Cleanup(workflow, run_result, close_raises)
    /\ pc' = "cleaned"
    /\ UNCHANGED <<config, clock, run_result, constructFixed>>

\* the caller receives the dictionary
RunReturns ==
    /\ pc = "cleaned"
    /\ run_result' = [run_result EXCEPT !.handed = TRUE]
    /\ pc' = "returned"
    /\ UNCHANGED <<config, workflow, clock, constructFixed>>

RunNext == RunStarts \/ TeamCompletes \/ TeamFails \/ RunCleansUp \/ RunReturns

SpecRun == RunInit /\ [][RunNext]_vars

----------------------------------------------------------------------------
(* Claims C25-C27: what run_workflow leaves behind *)

\* C25: run_workflow returns a result with status "success" or "error" also
\* when the team raises; at the return workflow_state.status is "completed"
\* exactly for "success" and "failed" exactly for "error", never "running";
\* the status changes only to "running" at the start of a run and from
\* "running" to "completed" or "failed".
C25_StatusFollowsResult ==
    /\ [](pc = "returned" =>
            /\ run_result.status \in {"success", "error"}
            /\ workflow.workflow_state.status \in {"completed", "failed"}
            /\ workflow.workflow_state.status = "completed"
                   <=> run_result.status = "success"
            /\ workflow.workflow_state.status = "failed"
                   <=> run_result.status = "error")
    /\ [][workflow'.workflow_state.status # workflow.workflow_state.status =>
            \/ /\ pc \in {"ready", "returned"}
               /\ workflow'.workflow_state.status = "running"
            \/ /\ workflow.workflow_state.status = "running"
               /\ workflow'.workflow_state.status \in {"completed", "failed"}]_vars

C25_Witness ==
    /\ pc = "returned"
    /\ workflow.runs = 2
    /\ run_result.status = "error"
    /\ run_result.handed
    /\ workflow.workflow_state.status = "failed"
    /\ workflow.workflow_state.messages # <<>>

\* C26: in every run, cleanup() has run once and awaited the client's close()
\* before the result is handed to the caller, after a failed team as after a
\* successful one; when close() raises, the result keeps its status.
C26_CleanupOncePerRun ==
    /\ [](/\ pc \in {"running", "finally"} =>
                /\ workflow.cleanups = workflow.runs - 1
                /\ workflow.close_calls = workflow.runs - 1
          /\ pc \in {"ready", "cleaned", "returned"} =>
                /\ workflow.cleanups = workflow.runs
                /\ workflow.close_calls = workflow.runs
          /\ (run_result.status # "none" /\ run_result.handed) =>
                /\ workflow.cleanups = workflow.runs
                /\ ~workflow.close_raised => workflow.model_client.closed)
    /\ [][pc = "finally" => run_result' = run_result]_vars

C26_Witness ==
    /\ pc = "returned"
    /\ run_result.handed
    /\ run_result.status = "success"
    /\ workflow.close_raised
    /\ workflow.runs = 2
    /\ workflow.cleanups = 2

\* C27: the summary in the result of a successful run has a duration that is
\* not None and equals the end time less the start time of that run, so is
\* not negative.
C27_SummaryHasRunDuration ==
    run_result.status = "success" =>
        LET d == run_result.result.summary.duration_seconds
        IN  /\ d # PyNone
            /\ d.x = workflow.workflow_state.end_time.t
                        - workflow.workflow_state.start_time.t
            /\ d.x >= 0

----------------------------------------------------------------------------
(* Claim C28: the usage record against count_tokens *)

\* C28: the prompt-token estimate in the usage of a create() result is what
\* count_tokens of the same client gives for the same messages, also for
\* messages whose content is empty, None or an empty list.
C28_UsageAgreesWithCountTokens ==
    (pc = "applied" /\ outcome.kind = "returned") =>
        outcome.result.usage.prompt_tokens = VariantCountTokens(variant, messages)

----------------------------------------------------------------------------
(* ProjectManagerAgent.track_progress called again and again *)

\* longest tasks_completed list that is still appended to
MaxCompleted == 3

TaskIds == {"T1", "T2", "T3"}
TaskStatuses == {"pending", "in_progress", "completed", "blocked"}

\* lines 40-47
InitialProjectStatus ==
    [current_phase |-> "planning", tasks_completed |-> <<>>,
     tasks_in_progress |-> <<>>, tasks_pending |-> <<>>, issues |-> <<>>,
     milestones |-> <<>>]

\* "task_id in list" of Python
InList(x, list) == \E i \in 1..Len(list) : list[i] = x

\* lines 326-331
TrackProgress(ps, task_id, status) ==
    IF status = "completed"
    THEN [ps EXCEPT !.tasks_completed = Append(@, task_id)]
    ELSE IF status = "in_progress"
         THEN IF ~InList(task_id, ps.tasks_in_progress)
              THEN [ps EXCEPT !.tasks_in_progress = Append(@, task_id)]
              ELSE ps
         ELSE ps

ProjectInit ==
    /\ project_status = InitialProjectStatus
    /\ pc = "planning"
    /\ review_result = NoReviewResult
    /\ first_payload = PyNone
    /\ stream = NoStream
    /\ config = NoConfig
    /\ workflow = NoWorkflow
    /\ clock = 0
    /\ run_result = NoRunResult
    /\ ctor_args = NoArgs
    /\ client = NoClient
    /\ messages = <<>>
    /\ payload = PyNone
    /\ http = NoHttp
    /\ response_text = ""
    /\ outcome = NoOutcome
    /\ SessionsIdle
    /\ ContractIdle

\* track_progress(task_id, status), lines 307-333
TrackProgressCalled ==
    \E task_id \in TaskIds, status \in TaskStatuses :
        /\ status = "completed" => Len(project_status.tasks_completed) < MaxCompleted
        /\ project_status' = TrackProgress(project_status, task_id, status)
        /\ pc' = "tracked"
        /\ UNCHANGED <<ctor_args, client, messages, payload, http, response_text,
                       outcome, sessionVars, contractVars, first_payload, stream,
                       workflowVars, review_result>>

ProjectNext == TrackProgressCalled

SpecProject == ProjectInit /\ [][ProjectNext]_vars

----------------------------------------------------------------------------
(* Claim C29: the task lists of the project status *)

NoDuplicates(list) ==
    \A i, j \in 1..Len(list) : list[i] = list[j] => i = j

\* C29: after any track_progress calls no task id is twice in
\* tasks_in_progress or twice in tasks_completed, and none is in both lists.
C29_TaskListsConsistent ==
    /\ NoDuplicates(project_status.tasks_in_progress)
    /\ NoDuplicates(project_status.tasks_completed)
    /\ \A t \in TaskIds :
           ~(InList(t, project_status.tasks_completed)
             /\ InList(t, project_status.tasks_in_progress))

----------------------------------------------------------------------------
(* CodeReviewerAgent.review_code: the findings, the score and the status *)

\* most findings one check reports for one piece of code
MaxFindings == 3

Finding(type, severity) == [type |-> type, severity |-> severity]

\* n findings of one kind
Findings(type, severity, n) == [i \in 1..n |-> Finding(type, severity)]

\* what the checks find in a piece of code: whether ast.parse raises
\* SyntaxError, the lines over 88 characters, the SQL patterns that match, the
\* matches of the secret patterns, the eval/exec calls, the augmented
\* additions inside for loops, the global statements, and whether a function
\* lacks a return annotation or a docstring
Analyses ==
    [syntax_error : BOOLEAN,
     long_lines : 0..MaxFindings,
     sql_patterns : {0, 1, 3},
     secrets : 0..MaxFindings,
     eval_calls : 0..1,
     concatenations : 0..MaxFindings,
     globals : 0..1,
     missing_type_hints : BOOLEAN,
     missing_docstrings : BOOLEAN]

FileTypes == {"python", "javascript"}

\* lines 82-92
EmptyReview ==
    [overall_score |-> 0, status |-> "NEEDS_REVISION", syntax_valid |-> PyNone,
     issues |-> <<>>, security_findings |-> <<>>, performance_issues |-> <<>>,
     standards_violations |-> <<>>]

\* _review_python_code, lines 105-134, with the four checks of lines 136-306;
\* warnings and suggestions, which neither the score nor the status reads,
\* are left out
ReviewPythonCode(a, rr) ==
    IF a.syntax_error
    THEN [rr EXCEPT !.issues = Append(@, Finding("syntax_error", "high")),
                    !.syntax_valid = FALSE]
    ELSE [rr EXCEPT
            !.syntax_valid = TRUE,
            !.security_findings =
                @ \o Findings("sql_injection", "high", a.sql_patterns)
                  \o Findings("hardcoded_secret", "high", a.secrets)
                  \o Findings("unsafe_eval", "high", a.eval_calls),
            !.performance_issues =
                @ \o Findings("inefficient_concatenation", "medium", a.concatenations)
                  \o Findings("global_variable", "low", a.globals),
            !.standards_violations =
                @ \o Findings("line_length", "low", a.long_lines)
                  \o (IF a.missing_type_hints
                      THEN <<Finding("missing_type_hints", "low")>> ELSE <<>>)
                  \o (IF a.missing_docstrings
                      THEN <<Finding("missing_docstrings", "medium")>> ELSE <<>>)]

RECURSIVE Deducted(_, _, _, _, _)
\* one of the four loops of lines 328-362
Deducted(list, high, medium, low, i) ==
    IF i > Len(list) THEN 0
    ELSE (IF list[i].severity = "high" THEN high
          ELSE IF list[i].severity = "medium" THEN medium
          ELSE low)
         + Deducted(list, high, medium, low, i + 1)

Min(a, b) == IF a <= b THEN a ELSE b

\* _calculate_overall_score, lines 322-364
CalculateOverallScore(rr) ==
    LET score == 100 - Deducted(rr.issues, 20, 10, 5, 1)
                     - Deducted(rr.security_findings, 25, 15, 8, 1)
                     - Deducted(rr.performance_issues, 15, 8, 3, 1)
                     - Deducted(rr.standards_violations, 10, 5, 2, 1)
    IN  Max(0, Min(100, score))

HighSeverityIssues(rr) ==
    LET items == rr.issues \o rr.security_findings \o rr.performance_issues
    IN  {i \in 1..Len(items) : items[i].severity = "high"}

\* faulty variant: the score alone decides
DetermineReviewStatusByScore(rr) ==
    IF rr.overall_score >= 85 THEN "APPROVED"
    ELSE IF rr.overall_score >= 70 THEN "NEEDS_OPTIMIZATION"
    ELSE "NEEDS_REVISION"

\* _determine_review_status, lines 366-389
DetermineReviewStatus(rr) ==
    IF HighSeverityIssues(rr) # {} THEN "NEEDS_REVISION"
    ELSE IF rr.overall_score >= 85 THEN "APPROVED"
    ELSE IF rr.overall_score >= 70 THEN "NEEDS_OPTIMIZATION"
    ELSE "NEEDS_REVISION"

\* review_code, lines 71-103
ReviewCode(a, file_type) ==
    LET reviewed == IF file_type = "python"
                    THEN ReviewPythonCode(a, EmptyReview) ELSE EmptyReview
        scored == [reviewed EXCEPT !.overall_score = CalculateOverallScore(reviewed)]
    IN  [scored EXCEPT !.status = DetermineReviewStatus(scored)]

ReviewInit ==
    /\ review_result = NoReviewResult
    /\ pc = "input"
    /\ project_status = NoProjectStatus
    /\ first_payload = PyNone
    /\ stream = NoStream
    /\ config = NoConfig
    /\ workflow = NoWorkflow
    /\ clock = 0
    /\ run_result = NoRunResult
    /\ ctor_args = NoArgs
    /\ client = NoClient
    /\ messages = <<>>
    /\ payload = PyNone
    /\ http = NoHttp
    /\ response_text = ""
    /\ outcome = NoOutcome
    /\ SessionsIdle
    /\ ContractIdle

\* review_code(code, file_type) on code in which the checks find a
ReviewCodeCalled ==
    /\ pc = "input"
    /\ \E a \in Analyses, file_type \in FileTypes :
        review_result' = ReviewCode(a, file_type)
    /\ pc' = "reviewed"
    /\ UNCHANGED <<ctor_args, client, messages, payload, http, response_text,
                   outcome, sessionVars, contractVars, first_payload, stream,
                   workflowVars, project_status>>

ReviewNext == ReviewCodeCalled

SpecReview == ReviewInit /\ [][ReviewNext]_vars

----------------------------------------------------------------------------
(* Claim C30: score and status of a review result *)

\* some issue, security finding, performance issue or standards violation of
\* the result has high severity
HasHighSeverity ==
    \E list \in {review_result.issues, review_result.security_findings,
                 review_result.performance_issues,
                 review_result.standards_violations} :
        \E i \in 1..Len(list) : list[i].severity = "high"

\* C30: a review result has a score from 0 to 100; it is APPROVED only with a
\* score of at least 85 and no high-severity item; a high-severity item gives
\* NEEDS_REVISION; a score from 70 up to 85 without high-severity item gives
\* NEEDS_OPTIMIZATION.
C30_ScoreAndStatus ==
    pc = "reviewed" =>
        /\ review_result.overall_score \in 0..100
        /\ review_result.status = "APPROVED" =>
               /\ review_result.overall_score >= 85
               /\ ~HasHighSeverity
        /\ HasHighSeverity => review_result.status = "NEEDS_REVISION"
        /\ (/\ ~HasHighSeverity
            /\ review_result.overall_score >= 70
            /\ review_result.overall_score < 85) =>
               review_result.status = "NEEDS_OPTIMIZATION"

C30_Witness ==
    /\ pc = "reviewed"
    /\ review_result.status = "NEEDS_REVISION"
    /\ review_result.overall_score = 75
    /\ Len(review_result.security_findings) = 1
    /\ HasHighSeverity

====
